---- MODULE Spec2Model ----
(***************************************************************************)
(* Verification model of the ia-crm backend: the appointment store and the *)
(* Booking Service (app/services/appointmentService.py), the availability  *)
(* engine, the per-session concurrency guard and the LangGraph dialogue    *)
(* engine (app/agent/graph.py, app/agent/nodes/*, app/api/chatControllers).*)
(***************************************************************************)
EXTENDS Integers, Sequences, FiniteSets, TLC

(***************************************************************************)
(* Bounds of the model.                                                    *)
(***************************************************************************)
\* rows the appointments table may hold in the Booking Service specification
MaxAppointments == 2
\* /chat requests received in the concurrency-guard specification
MaxRequests == 4

(***************************************************************************)
(* Time.  A timestamp is a number of hours since 00:00 of day 0.           *)
(***************************************************************************)
\* date.weekday() of day 0 (3 = Thursday), so that day 2 is a Saturday
Weekday0 == 3
NoTime == 0 - 1
NoId == 0

Ts(d, h) == d * 24 + h
DateOf(t) == t \div 24
HourOf(t) == t % 24
Weekday(d) == (d + Weekday0) % 7

\* the timestamps callers ask for: two slots of the Friday of day 1
BookTimes == {Ts(1, 10), Ts(1, 11)}
\* the instant the clock may jump to: the first timestamp is then in the past
Instants == {Ts(1, 11)}
\* the phones leads are registered under
Phones == {"web-aaaaaaaa", "web-bbbbbbbb"}
\* ids a caller may pass for a lead: those the table can hold and an unknown one
ClientIds == 1..(Cardinality(Phones) + 1)

\* the chat sessions (session_id of the requests)
SessionIds == {"aaaaaaaa-1", "bbbbbbbb-1"}
\* request handlers that may be running create_appointment at the same time
Callers == {"w1", "w2"}

VARIABLES
    appointments,   \* the appointments table: sequence of rows, id = index
    clients,        \* the clients table: sequence of phones, id = index
    now,            \* the wall clock
    lastCall,       \* the last Booking Service call and its outcome
    calls,          \* create_appointment calls in progress, one per caller
    session_locks,  \* chatControllers.session_locks: session id -> lock
    locks,          \* the asyncio.Lock objects created so far
    requests,       \* the /chat requests received so far
    user_states,    \* chatControllers.user_states: session id -> state
    turn            \* the send_message call in progress of each chat session

storeVars == <<appointments, clients, now, lastCall>>
raceVars == <<calls>>
guardVars == <<session_locks, locks, requests>>
chatVars == <<user_states>>
dialogVars == <<turn>>
vars == <<appointments, clients, now, lastCall, calls, session_locks, locks,
          requests, user_states, turn>>

AppointmentStatus == {"pending", "confirmed", "cancelled", "completed", "blocked"}
ActiveStatus == {"pending", "confirmed"}

NoCall == [op |-> "none", id |-> NoId, client |-> NoId, at |-> NoTime, result |-> "none"]
Call(op, id, c, t, r) == [op |-> op, id |-> id, client |-> c, at |-> t, result |-> r]

(***************************************************************************)
(* Booking Service: create_appointment                                     *)
(***************************************************************************)
ClientExists(cl, c) == c \in 1..Len(cl)

\* rows the conflict query of create_appointment selects
ConflictRows(appts, t) ==
    {i \in 1..Len(appts) : appts[i].scheduled_at = t /\ appts[i].status # "cancelled"}

\* the Appointment row create_appointment builds
NewAppointment(c, t, mtype) ==
    [client_id |-> c, scheduled_at |-> t, status |-> "pending", meeting_type |-> mtype]

\* mutant: the conflict test is missing
ConflictOutcome_NoCheck(rows) == "ok"

\* outcome of the conflict query and of the test on its result
ConflictOutcome(rows) ==
    IF Cardinality(rows) > 1 THEN "multiple_rows"    \* scalar_one_or_none raises
    ELSE IF rows # {} THEN "occupied"
    ELSE "ok"

\* mutant: the test on the date is missing
CreateAppointmentResult_NoDateTest(appts, cl, clock, c, t) ==
    IF ~ClientExists(cl, c) THEN "client_not_found"
    ELSE ConflictOutcome(ConflictRows(appts, t))

\* outcome of create_appointment(data, db) on a store
CreateAppointmentResult(appts, cl, clock, c, t) ==
    IF ~ClientExists(cl, c) THEN "client_not_found"
    ELSE IF t < clock THEN "past"
    ELSE ConflictOutcome(ConflictRows(appts, t))

\* mutant: create_appointment cancels the lead's active appointments first
CreateAppointmentStore_Reschedule(appts, cl, clock, c, t, mtype) ==
    IF CreateAppointmentResult(appts, cl, clock, c, t) = "ok"
    THEN Append([i \in 1..Len(appts) |->
                    IF appts[i].client_id = c /\ appts[i].status \in ActiveStatus
                    THEN [appts[i] EXCEPT !.status = "cancelled"] ELSE appts[i]],
                NewAppointment(c, t, mtype))
    ELSE appts

\* the table after create_appointment(data, db)
CreateAppointmentStore(appts, cl, clock, c, t, mtype) ==
    IF CreateAppointmentResult(appts, cl, clock, c, t) = "ok"
    THEN Append(appts, NewAppointment(c, t, mtype))
    ELSE appts

(***************************************************************************)
(* Booking Service: cancel_appointment, update_appointment_status,         *)
(* update_appointment                                                      *)
(***************************************************************************)
CancelAppointmentResult(appts, id) ==
    IF id \notin 1..Len(appts) THEN "not_found"
    ELSE IF appts[id].status = "cancelled" THEN "already_cancelled"
    ELSE "ok"

CancelAppointmentStore(appts, id) ==
    IF CancelAppointmentResult(appts, id) = "ok"
    THEN [appts EXCEPT ![id].status = "cancelled"]
    ELSE appts

\* awareDb: the driver returns timezone-aware timestamps, and comparing one
\* with the naive datetime.now() raises TypeError
UpdateStatusResult(appts, clock, id, status, awareDb) ==
    IF id \notin 1..Len(appts) THEN "not_found"
    ELSE IF appts[id].status = "cancelled" THEN "cancelled_locked"
    ELSE IF status = "completed" /\ awareDb THEN "type_error"
    ELSE IF status = "completed" /\ appts[id].scheduled_at > clock THEN "future_completed"
    ELSE "ok"

UpdateStatusStore(appts, clock, id, status, awareDb) ==
    IF UpdateStatusResult(appts, clock, id, status, awareDb) = "ok"
    THEN [appts EXCEPT ![id].status = status]
    ELSE appts

\* AppointmentUpdate.validate_future_date, then update_appointment
UpdateAppointmentResult(appts, clock, id, t) ==
    IF t # NoTime /\ t < clock THEN "validation_error"
    ELSE IF id \notin 1..Len(appts) THEN "not_found"
    ELSE "ok"

UpdateAppointmentStore(appts, clock, id, t, status) ==
    IF UpdateAppointmentResult(appts, clock, id, t) = "ok"
    THEN [appts EXCEPT
            ![id].scheduled_at = IF t # NoTime THEN t ELSE @,
            ![id].status = IF status # "none" THEN status ELSE @]
    ELSE appts

\* pending/confirmed rows of a lead
ActiveOf(appts, c) ==
    {i \in 1..Len(appts) : appts[i].client_id = c /\ appts[i].status \in ActiveStatus}

(***************************************************************************)
(* The Booking Service as called through the REST controllers, one call    *)
(* at a time.                                                              *)
(***************************************************************************)
\* no create_appointment call in progress
IdleCall == [pc |-> "idle", client |-> NoId, at |-> NoTime, seen |-> 0, result |-> "none"]
\* user_states has no entry for the session
NoState == [current_step |-> "absent"]
\* session_locks has no entry for the session
NoLock == 0

\* the chat session whose dialogue is followed turn by turn; every other
\* lead reaches the tables through the Booking Service API
ChatSessions == {"aaaaaaaa-1"}

\* the state the graph starts from when user_states has no entry: every
\* state.get(...) of a missing key yields its default.  Optional booleans
\* are "None" / "True" / "False", texts are kept as presence flags or tags.
NewState ==
    [ current_step             |-> "",
      conversation_mode        |-> "",
      presentation_done        |-> FALSE,
      permission_asked         |-> FALSE,
      permission_granted       |-> "None",
      lead_name                |-> FALSE,
      lead_email               |-> FALSE,
      lead_interest            |-> FALSE,
      lead_collection_complete |-> FALSE,
      asked_to_schedule        |-> FALSE,
      wants_to_schedule        |-> "None",
      requested_datetime       |-> NoTime,
      last_requested_date      |-> NoTime,
      slot_available           |-> "None",
      chosen_slot              |-> NoTime,
      client_id                |-> NoId,
      appointment_id           |-> NoId,
      appointment_confirmed    |-> FALSE,
      final_response           |-> "" ]

\* no send_message call of the session is in progress
IdleTurn == [pc |-> "idle", msg |-> "", st |-> NewState, emitted |-> <<>>, ran |-> <<>>]

\* empty tables, empty module-level dictionaries, nothing in progress
InitCommon ==
    /\ appointments = <<>>
    /\ clients = <<>>
    /\ now = 0
    /\ lastCall = NoCall
    /\ calls = [k \in Callers |-> IdleCall]
    /\ session_locks = [s \in SessionIds |-> NoLock]
    /\ locks = <<>>
    /\ requests = <<>>
    /\ user_states = [s \in SessionIds |-> NoState]
    /\ turn = [s \in ChatSessions |-> IdleTurn]

InitStore == InitCommon

\* clientService.create_client: the phone must be new
CreateClient(phone) ==
    /\ \A i \in 1..Len(clients) : clients[i] # phone
    /\ clients' = Append(clients, phone)
    /\ UNCHANGED <<appointments, now, raceVars, guardVars, chatVars, dialogVars>>

CreateAppointment(c, t) ==
    /\ CreateAppointmentResult(appointments, clients, now, c, t) = "ok"
            => Len(appointments) < MaxAppointments
    /\ appointments' = CreateAppointmentStore(appointments, clients, now, c, t, "api")
    /\ UNCHANGED <<clients, now, raceVars, guardVars, chatVars, dialogVars>>

CancelAppointment(id) ==
    /\ appointments' = CancelAppointmentStore(appointments, id)
    /\ UNCHANGED <<clients, now, raceVars, guardVars, chatVars, dialogVars>>

UpdateAppointmentStatus(id, status, awareDb) ==
    /\ appointments' = UpdateStatusStore(appointments, now, id, status, awareDb)
    /\ UNCHANGED <<clients, now, raceVars, guardVars, chatVars, dialogVars>>

UpdateAppointment(id, t, status) ==
    /\ appointments' = UpdateAppointmentStore(appointments, now, id, t, status)
    /\ UNCHANGED <<clients, now, raceVars, guardVars, chatVars, dialogVars>>

Tick ==
    /\ \E t \in Instants : t > now /\ now' = t
    /\ UNCHANGED <<appointments, clients, raceVars, guardVars, chatVars, dialogVars>>

\* the Booking Service called on its own: lastCall records each call
NextStore ==
    \/ \E phone \in Phones :
          /\ CreateClient(phone)
          /\ lastCall' = Call("create_client", NoId, Len(clients) + 1, NoTime, "ok")
    \/ \E c \in ClientIds, t \in BookTimes :
          /\ CreateAppointment(c, t)
          /\ lastCall' = Call("create_appointment", NoId, c, t,
                              CreateAppointmentResult(appointments, clients, now, c, t))
    \/ \E id \in 1..MaxAppointments :
          /\ CancelAppointment(id)
          /\ lastCall' = Call("cancel_appointment", id, NoId, NoTime,
                              CancelAppointmentResult(appointments, id))
    \/ \E id \in 1..MaxAppointments,
          status \in {"confirmed", "completed", "pending", "cancelled"} :
          \E awareDb \in (IF status = "completed" THEN BOOLEAN ELSE {FALSE}) :
             /\ UpdateAppointmentStatus(id, status, awareDb)
             /\ lastCall' = Call("update_appointment_status", id, NoId, NoTime,
                                 UpdateStatusResult(appointments, now, id, status, awareDb))
    \/ \E id \in 1..MaxAppointments :
          \E u \in {[t |-> t, status |-> "none"] : t \in BookTimes}
                   \cup {[t |-> NoTime, status |-> st] : st \in {"cancelled", "pending"}} :
             /\ UpdateAppointment(id, u.t, u.status)
             /\ lastCall' = Call("update_appointment", id, NoId, u.t,
                                 UpdateAppointmentResult(appointments, now, id, u.t))
    \/ Tick /\ lastCall' = NoCall

SpecStore == InitStore /\ [][NextStore]_vars

(***************************************************************************)
(* Claims on the Booking Service                                           *)
(***************************************************************************)
\* the step is a create_appointment call for an existing lead at a timestamp
\* that is not in the past and that a non-cancelled appointment holds
CreateOnTakenSlot ==
    /\ lastCall'.op = "create_appointment"
    /\ lastCall'.client \in 1..Len(clients)
    /\ lastCall'.at >= now
    /\ \E i \in 1..Len(appointments) :
          appointments[i].scheduled_at = lastCall'.at /\ appointments[i].status # "cancelled"

NonCancelledAt(appts, t) ==
    {i \in 1..Len(appts) : appts[i].scheduled_at = t /\ appts[i].status # "cancelled"}

ActiveCount(appts, c) ==
    Cardinality({i \in 1..Len(appts) :
                    appts[i].client_id = c /\ appts[i].status \in ActiveStatus})

C22_CancelledIsAbsorbing ==
    [][ /\ \A i \in 1..Len(appointments) :
              appointments[i].status = "cancelled"
                  => appointments'[i].status = "cancelled"
        /\ ( /\ lastCall'.op = "update_appointment_status"
             /\ lastCall'.id \in 1..Len(appointments)
             /\ appointments[lastCall'.id].status = "cancelled" )
            => /\ lastCall'.result = "cancelled_locked"
               /\ appointments' = appointments ]_vars

\* C23: create_appointment for a lead id that does not exist, or for a
\* timestamp earlier than now, is rejected with an error and leaves the table
\* unchanged; a successful create appends the appointment with status
\* pending.
C23_CreateValidates ==
    [][ lastCall'.op = "create_appointment" =>
          /\ (lastCall'.client \notin 1..Len(clients) \/ lastCall'.at < now)
                => /\ lastCall'.result \in {"client_not_found", "past"}
                   /\ appointments' = appointments
          /\ lastCall'.result = "ok"
                => /\ Len(appointments') = Len(appointments) + 1
                   /\ SubSeq(appointments', 1, Len(appointments)) = appointments
                   /\ appointments'[Len(appointments')].status = "pending"
                   /\ appointments'[Len(appointments')].client_id = lastCall'.client
                   /\ appointments'[Len(appointments')].scheduled_at = lastCall'.at
          /\ lastCall'.result # "ok" => appointments' = appointments ]_vars

\* a create_appointment of an existing lead was rejected for its date while
\* the table already held an appointment
C23_Witness ==
    /\ lastCall.op = "create_appointment"
    /\ lastCall.result = "past"
    /\ lastCall.client \in 1..Len(clients)
    /\ appointments # <<>>

\* C28: in every state reached by create_appointment, update_appointment,
\* update_appointment_status and cancel_appointment calls, no two
\* non-cancelled appointments of leads have the same scheduled_at.
C28_NoSharedTimestamp ==
    \A i, j \in 1..Len(appointments) :
        ( /\ i # j
          /\ appointments[i].client_id # NoId /\ appointments[j].client_id # NoId
          /\ appointments[i].status # "cancelled" /\ appointments[j].status # "cancelled" )
            => appointments[i].scheduled_at # appointments[j].scheduled_at

(***************************************************************************)
(* Concurrent create_appointment calls.  Each call runs on its own         *)
(* database session and yields at every await: the client lookup, the      *)
(* conflict query and the commit are separate steps, and the table has no  *)
(* uniqueness constraint on scheduled_at.                                  *)
(***************************************************************************)
\* lines 40-49: db.get(Client, ...) and the test on the date
BeginCreate(k, c, t) ==
    /\ calls[k].pc = "idle"
    /\ calls' = [calls EXCEPT ![k] =
            IF ~ClientExists(clients, c)
            THEN [IdleCall EXCEPT !.pc = "done", !.client = c, !.at = t,
                                  !.result = "client_not_found"]
            ELSE IF t < now
            THEN [IdleCall EXCEPT !.pc = "done", !.client = c, !.at = t, !.result = "past"]
            ELSE [IdleCall EXCEPT !.pc = "validated", !.client = c, !.at = t]]
    /\ UNCHANGED <<storeVars, guardVars, chatVars, dialogVars>>

\* lines 52-57: the conflict query reads the committed rows
QueryConflict(k) ==
    /\ calls[k].pc = "validated"
    /\ calls' = [calls EXCEPT ![k].pc = "queried",
                              ![k].seen = Cardinality(ConflictRows(appointments, calls[k].at))]
    /\ UNCHANGED <<storeVars, guardVars, chatVars, dialogVars>>

\* what the call does with the rows its query returned
SeenOutcome(n) ==
    IF n > 1 THEN "multiple_rows" ELSE IF n = 1 THEN "occupied" ELSE "ok"

\* lines 58-79: raise on a conflict, otherwise add the row and commit
CommitCreate(k) ==
    /\ calls[k].pc = "queried"
    /\ SeenOutcome(calls[k].seen) = "ok" => Len(appointments) < MaxAppointments
    /\ calls' = [calls EXCEPT ![k].pc = "done", ![k].result = SeenOutcome(calls[k].seen)]
    /\ appointments' =
            IF SeenOutcome(calls[k].seen) = "ok"
            THEN Append(appointments, NewAppointment(calls[k].client, calls[k].at, "api"))
            ELSE appointments
    /\ UNCHANGED <<clients, now, lastCall, guardVars, chatVars, dialogVars>>

\* the handler returns (or raises) and the caller is free for another request
ReturnCreate(k) ==
    /\ calls[k].pc = "done"
    /\ calls' = [calls EXCEPT ![k] = IdleCall]
    /\ UNCHANGED <<storeVars, guardVars, chatVars, dialogVars>>

NextRace ==
    \/ \E p \in Phones : CreateClient(p) /\ UNCHANGED lastCall
    \/ \E k \in Callers, c \in ClientIds, t \in BookTimes : BeginCreate(k, c, t)
    \/ \E k \in Callers : QueryConflict(k)
    \/ \E k \in Callers : CommitCreate(k)
    \/ \E k \in Callers : ReturnCreate(k)

SpecRace == InitCommon /\ [][NextRace]_vars

\* C3: whatever the interleaving of concurrent create_appointment calls for
\* different leads, at most one non-cancelled appointment is inserted at a
\* timestamp (conflict check and insert act as one atomic unit).
C3_AtomicCheckAndInsert ==
    \A i, j \in 1..Len(appointments) :
        ( /\ i # j
          /\ appointments[i].scheduled_at = appointments[j].scheduled_at
          /\ appointments[i].status # "cancelled"
          /\ appointments[j].status # "cancelled" )
        => appointments[i].client_id = appointments[j].client_id

(***************************************************************************)
(* The concurrency guard of chatControllers: session_locks is a            *)
(* defaultdict(Lock), send_message and reset_session run their body under  *)
(* "async with session_locks[session_id]".  Handlers run on one event      *)
(* loop, so a handler is atomic up to its next await.                      *)
(***************************************************************************)
NewLock == [locked |-> FALSE, waiters |-> <<>>]

\* what the graph returns in this specification for a state whose history
\* holds n messages: the step it stopped at and the history with its reply
ResultState(n) == [current_step |-> "greeting", messages |-> n + 1]

\* session_locks[session_id]: the defaultdict creates a missing lock
LockOf(sid) ==
    IF session_locks[sid] = NoLock THEN Len(locks) + 1 ELSE session_locks[sid]
LocksWith(sid) ==
    IF session_locks[sid] = NoLock THEN Append(locks, NewLock) ELSE locks

\* asyncio.Lock.acquire returns at once only if the lock is free and nobody waits
CanAcquire(lk) == ~lk.locked /\ lk.waiters = <<>>

\* send_message, lines 101-113: user_states.get returns the stored dict
\* itself (a fresh dict, stored nowhere, for a new session), so appending the
\* HumanMessage to its list changes the persisted history in place
AppendHuman(us, sid) ==
    IF us[sid] = NoState THEN us ELSE [us EXCEPT ![sid].messages = @ + 1]
\* number of messages of the state handed to graph.ainvoke
InputMessages(us, sid) ==
    IF us[sid] = NoState THEN 1 ELSE us[sid].messages + 1

\* a request of the given kind that reached "async with"; before is the
\* persisted state its handler found, input the history it gave the graph
NewRequest(kind, sid, l, pc, waited) ==
    [kind |-> kind, sid |-> sid, pc |-> pc, lock |-> l, waited |-> waited,
     before |-> NoState, input |-> 0, status |-> 0]

\* the handler holds the lock: lines 101-113 run up to the await of ainvoke
EnterSection(req, us) ==
    [req EXCEPT !.pc = "critical", !.before = us[req.sid],
                !.input = InputMessages(us, req.sid)]

\* mutant: reset_session only rewinds the step of the stored state
ResetStates_KeepFields(sid) ==
    [user_states EXCEPT ![sid] =
        IF @ = NoState THEN @ ELSE [@ EXCEPT !.current_step = "greeting"]]

\* the body of reset_session (lines 159-165): it has no await
ResetStates(sid) == [user_states EXCEPT ![sid] = NoState]
ResetLocks(sl, sid) == [sl EXCEPT ![sid] = NoLock]

\* POST /chat/message reaches "async with session_locks[session_id]"
ArriveSend(sid) ==
    /\ Len(requests) < MaxRequests
    /\ LET l == LockOf(sid)
           lks == LocksWith(sid)
       IN  /\ session_locks' = [session_locks EXCEPT ![sid] = l]
           /\ IF CanAcquire(lks[l])
              THEN /\ locks' = [lks EXCEPT ![l].locked = TRUE]
                   /\ requests' = Append(requests,
                        EnterSection(NewRequest("send", sid, l, "waiting", FALSE),
                                     user_states))
                   /\ user_states' = AppendHuman(user_states, sid)
              ELSE /\ locks' = [lks EXCEPT ![l].waiters = Append(@, Len(requests) + 1)]
                   /\ requests' = Append(requests,
                        NewRequest("send", sid, l, "waiting", TRUE))
                   /\ user_states' = user_states
    /\ UNCHANGED <<storeVars, raceVars, dialogVars>>

\* POST /chat/reset reaches "async with session_locks[session_id]"; when the
\* lock is free the whole body runs and the lock is released before any
\* other handler can run
ArriveReset(sid) ==
    /\ Len(requests) < MaxRequests
    /\ LET l == LockOf(sid)
           lks == LocksWith(sid)
       IN  IF CanAcquire(lks[l])
           THEN /\ locks' = lks
                /\ session_locks' = ResetLocks([session_locks EXCEPT ![sid] = l], sid)
                /\ user_states' = ResetStates(sid)
                /\ requests' = Append(requests,
                        [NewRequest("reset", sid, l, "done", FALSE) EXCEPT !.status = 200])
           ELSE /\ locks' = [lks EXCEPT ![l].waiters = Append(@, Len(requests) + 1)]
                /\ session_locks' = [session_locks EXCEPT ![sid] = l]
                /\ user_states' = user_states
                /\ requests' = Append(requests,
                        NewRequest("reset", sid, l, "waiting", TRUE))
    /\ UNCHANGED <<storeVars, raceVars, dialogVars>>

\* the first waiter of a released lock resumes inside Lock.acquire, takes the
\* lock and runs lines 101-113
ResumeSend(r) ==
    /\ r \in 1..Len(requests)
    /\ requests[r].kind = "send" /\ requests[r].pc = "waiting"
    /\ LET l == requests[r].lock
       IN  /\ ~locks[l].locked
           /\ locks[l].waiters # <<>> /\ Head(locks[l].waiters) = r
           /\ locks' = [locks EXCEPT ![l].locked = TRUE, ![l].waiters = Tail(@)]
    /\ requests' = [requests EXCEPT ![r] = EnterSection(@, user_states)]
    /\ user_states' = AppendHuman(user_states, requests[r].sid)
    /\ UNCHANGED <<session_locks, storeVars, raceVars, dialogVars>>

\* a waiting reset resumes, runs its body and releases the lock it waited for
ResumeReset(r) ==
    /\ r \in 1..Len(requests)
    /\ requests[r].kind = "reset" /\ requests[r].pc = "waiting"
    /\ LET l == requests[r].lock
       IN  /\ ~locks[l].locked
           /\ locks[l].waiters # <<>> /\ Head(locks[l].waiters) = r
           /\ locks' = [locks EXCEPT ![l].waiters = Tail(@)]
    /\ session_locks' = ResetLocks(session_locks, requests[r].sid)
    /\ user_states' = ResetStates(requests[r].sid)
    /\ requests' = [requests EXCEPT ![r].pc = "done", ![r].status = 200]
    /\ UNCHANGED <<storeVars, raceVars, dialogVars>>

\* how graph.ainvoke under wait_for can end
TurnOutcomes == {"ok", "raise", "timeout"}

\* the HTTP status of send_message: the HTTPException(504) of the timeout is
\* raised inside the outer try, whose "except Exception" answers 500
HttpStatus(outcome) == IF outcome = "ok" THEN 200 ELSE 500

\* line 132: only a turn whose graph returned replaces the persisted state
PersistResult(us, req, outcome) ==
    IF outcome = "ok" THEN [us EXCEPT ![req.sid] = ResultState(req.input)] ELSE us

\* mutant: the lock is released only when the turn succeeded
ReleaseLock_OnlyOnSuccess(lks, l, outcome) ==
    IF outcome = "ok" THEN [lks EXCEPT ![l].locked = FALSE] ELSE lks

\* leaving "async with session_locks[session_id]", by return or by exception
ReleaseLock(lks, l, outcome) == [lks EXCEPT ![l].locked = FALSE]

\* the graph invocation of a turn ends: the state is persisted (or an
\* exception skips that) and "async with" releases the lock
ExitSend(r) ==
    /\ r \in 1..Len(requests)
    /\ requests[r].kind = "send" /\ requests[r].pc = "critical"
    /\ \E outcome \in TurnOutcomes :
         /\ user_states' = PersistResult(user_states, requests[r], outcome)
         /\ locks' = ReleaseLock(locks, requests[r].lock, outcome)
         /\ requests' = [requests EXCEPT ![r].pc = "done",
                                         ![r].status = HttpStatus(outcome)]
    /\ UNCHANGED <<session_locks, storeVars, raceVars, dialogVars>>

NextGuard ==
    \/ \E sid \in SessionIds : ArriveSend(sid)
    \/ \E sid \in SessionIds : ArriveReset(sid)
    \/ \E r \in 1..MaxRequests : ResumeSend(r)
    \/ \E r \in 1..MaxRequests : ResumeReset(r)
    \/ \E r \in 1..MaxRequests : ExitSend(r)

SpecGuard == InitCommon /\ [][NextGuard]_vars

\* requests of a session that are inside the lock-protected section
InSection(sid) ==
    {r \in 1..Len(requests) : requests[r].sid = sid /\ requests[r].pc = "critical"}

\* C2: for every session, at most one request is inside the lock-protected
\* section at any moment, under any interleaving of send_message and
\* reset_session requests.
C2_OneRequestPerSession ==
    \A sid \in SessionIds : Cardinality(InSection(sid)) <= 1

\* C11: when the graph invocation of a turn raises or times out, the state
\* persisted for the session after the turn equals the one persisted before
\* the turn, message history included.
C11_FailedTurnKeepsState ==
    [][ \A r \in 1..Len(requests) :
            ( /\ requests[r].kind = "send"
              /\ requests[r].pc = "critical"
              /\ requests'[r].pc = "done"
              /\ requests'[r].status # 200 )
                => user_states'[requests[r].sid] = requests[r].before
      ]_vars

\* the graph invocation ends (wait_for bounds it by 60 s) and the event loop
\* runs the handler a released lock has woken
SpecGuardFair ==
    /\ SpecGuard
    /\ \A r \in 1..MaxRequests :
          /\ WF_vars(ExitSend(r))
          /\ WF_vars(ResumeSend(r))
          /\ WF_vars(ResumeReset(r))

\* C12: whatever the outcome of a turn (success, timeout, exception), the
\* session lock is released when the request finishes, and every request
\* queued on the lock of its session is eventually processed.
C12_LockReleased ==
    /\ [][ \A r \in 1..Len(requests) :
                (requests[r].pc = "critical" /\ requests'[r].pc = "done")
                    => ~locks'[requests[r].lock].locked ]_vars
    /\ \A r \in 1..MaxRequests :
          (r \in 1..Len(requests) /\ requests[r].pc = "waiting")
              ~> (r \in 1..Len(requests) /\ requests[r].pc = "done")

\* a message that queued behind a turn that failed has been processed
C12_Witness ==
    \E r1, r2 \in 1..Len(requests) :
        /\ r1 < r2
        /\ requests[r1].sid = requests[r2].sid
        /\ requests[r1].lock = requests[r2].lock
        /\ requests[r1].kind = "send" /\ requests[r1].status = 500
        /\ requests[r2].kind = "send" /\ requests[r2].waited
        /\ requests[r2].pc = "done"

(***************************************************************************)
(* The dialogue engine: POST /chat/message runs the LangGraph graph of     *)
(* app/agent/graph.py on the persisted state of the session.  A turn       *)
(* starts in the dispatcher, executes nodes until a route yields END and   *)
(* then persists the resulting state.                                      *)
(***************************************************************************)
\* appointment_creator: phone = "web-" + session_id[:8]
PhoneOf(sid) ==
    IF sid \in {"aaaaaaaa-1", "aaaaaaaa-2"} THEN "web-aaaaaaaa" ELSE "web-bbbbbbbb"

\* the inbound texts of the visitor
Messages == {"cancelar", "sim", "nao", "maria@x.com",
             "preciso de mais clientes", "sexta 10h"}

\* greeting_node: any(kw in user_input for kw in ["cancelar", "cancela", ...])
HasCancelKeyword(m) == m = "cancelar"
\* ask_to_schedule._YES_PATTERNS and _NO_PATTERNS
HasYes(m) == m \in {"sim", "quero vender mais online"}
HasNo(m) == m = "nao"
\* ask_to_schedule._detect_wants_to_schedule
DetectWantsToSchedule(m) ==
    IF HasNo(m) /\ ~HasYes(m) THEN "False"
    ELSE IF HasYes(m) /\ ~HasNo(m) THEN "True"
    ELSE IF HasNo(m) /\ HasYes(m) THEN "False"
    ELSE "None"
\* simple_lead_collector._extract_name: 2 to 5 alphabetic words, no reject word
ExtractName(m) == m = "preciso de mais clientes"
\* simple_lead_collector._extract_email
ExtractEmail(m) == m = "maria@x.com"
\* simple_lead_collector._extract_interest: no "@", 3 words or more, 15 chars or more
ExtractInterest(m) == m = "preciso de mais clientes"
\* the date and time a text names, which the extraction of datetime_collector
\* answers with when it succeeds
DateTimeIn(m) ==
    IF m = "sexta 10h" THEN Ts(1, 10)
    ELSE IF m = "01/01 10h" THEN Ts(0, 10)
    ELSE IF m = "02/01 11h" THEN Ts(1, 11)
    ELSE IF m = "02/01 12h" THEN Ts(1, 12)
    ELSE IF m = "02/01 14h" THEN Ts(1, 14)
    ELSE IF m = "02/01 18h" THEN Ts(1, 18)
    ELSE IF m = "03/01 10h" THEN Ts(2, 10)
    ELSE NoTime
\* outcomes of the extraction call: no date, an answer in a wrong format, the
\* 25 s timeout, another exception, or the date of the text
ExtractionOutcomes(m) ==
    {"NENHUM", "invalid", "timeout", "error"}
        \cup (IF DateTimeIn(m) = NoTime THEN {} ELSE {"parsed"})

\* business hours of get_available_slots and datetime_collector
MorningHours == 9..11
AfternoonHours == 14..17

IsBlocked(appts, d, marker) ==
    \E i \in 1..Len(appts) :
        /\ DateOf(appts[i].scheduled_at) = d
        /\ appts[i].client_id = NoId
        /\ appts[i].meeting_type = marker

\* timestamps of the pending and confirmed appointments of a date
OccupiedTimes(appts, d) ==
    { appts[i].scheduled_at : i \in
        {j \in 1..Len(appts) : /\ DateOf(appts[j].scheduled_at) = d
                               /\ appts[j].status \in ActiveStatus} }

\* appointmentService.get_available_slots: the free hours of a date
GetAvailableSlots(appts, d) ==
    IF Weekday(d) >= 5 THEN {}
    ELSE IF IsBlocked(appts, d, "FULL_DAY_BLOCK") THEN {}
    ELSE LET morning == IF IsBlocked(appts, d, "MORNING_BLOCK") THEN {} ELSE MorningHours
             afternoon == IF IsBlocked(appts, d, "AFTERNOON_BLOCK") THEN {} ELSE AfternoonHours
         IN  {h \in morning \cup afternoon : Ts(d, h) \notin OccupiedTimes(appts, d)}

\* graph.route_dispatcher
RouteDispatcher(st) ==
    IF st.conversation_mode = "completed" THEN "greeting"
    ELSE IF st.current_step = "" \/ st.current_step = "greeting" THEN
        IF st.presentation_done THEN
            IF st.lead_collection_complete THEN
                IF st.asked_to_schedule /\ st.wants_to_schedule = "None"
                    THEN "ask_to_schedule"
                ELSE IF st.wants_to_schedule = "True" THEN "datetime_collector"
                ELSE IF st.wants_to_schedule = "False" THEN "confirmation"
                ELSE "ask_to_schedule"
            ELSE "question_answerer"
        ELSE "greeting"
    ELSE IF st.current_step = "question_answerer" THEN
        IF st.lead_collection_complete THEN "ask_to_schedule"
        ELSE IF st.permission_granted = "True" THEN "simple_lead_collector"
        ELSE "question_answerer"
    ELSE IF st.current_step = "lead_collector" THEN
        IF st.lead_collection_complete THEN "ask_to_schedule"
        ELSE "simple_lead_collector"
    ELSE IF st.current_step = "ask_to_schedule" THEN "ask_to_schedule"
    ELSE IF st.current_step = "datetime_collector" THEN "datetime_collector"
    ELSE IF st.current_step = "slot_checker" THEN "datetime_collector"
    ELSE IF st.current_step = "appointment_creator" THEN "confirmation"
    ELSE IF st.current_step = "confirmation" THEN "greeting"
    ELSE "greeting"

\* graph.route_after_lead_collector
RouteAfterLeadCollector(st) ==
    IF st.lead_collection_complete THEN "ask_to_schedule" ELSE "__end__"
\* graph.route_after_ask
RouteAfterAsk(st) ==
    IF st.wants_to_schedule = "True" THEN "datetime_collector"
    ELSE IF st.wants_to_schedule = "False" THEN "confirmation"
    ELSE "__end__"
\* mutant: without a date the turn runs datetime_collector again
RouteAfterDatetime_Retry(st) ==
    IF st.requested_datetime # NoTime THEN "slot_checker" ELSE "datetime_collector"
\* graph.route_after_datetime
RouteAfterDatetime(st) ==
    IF st.requested_datetime # NoTime THEN "slot_checker" ELSE "__end__"
\* mutant: the turn chains into appointment_creator whatever the check found
RouteAfterSlotCheck_Always(st) == "appointment_creator"
\* graph.route_after_slot_check
RouteAfterSlotCheck(st) ==
    IF st.slot_available = "True" \/ st.chosen_slot # NoTime
        THEN "appointment_creator" ELSE "__end__"

\* chatControllers.extract_agent_response on the result of the graph: the
\* final_response field when it is set, else the last AIMessage of the
\* history, which is the last one of this turn when the turn emitted any
ExtractAgentResponse(st, emitted) ==
    IF st.final_response # "" THEN st.final_response
    ELSE IF emitted # <<>> THEN emitted[Len(emitted)]
    ELSE "earlier_turn_message"

(***************************************************************************)
(* One turn.  turn[s].pc is the node the graph executes next, "end" when   *)
(* the graph has reached END and send_message is about to persist, and     *)
(* "failed" when a node raised.  turn[s].st is the state of the graph,     *)
(* turn[s].emitted the AIMessages of this turn and turn[s].ran the nodes   *)
(* executed, each with whether it interpreted the inbound text.            *)
(***************************************************************************)
\* the wrappers of graph.py overwrite current_step with their own constant
Wrap(st, step) == [st EXCEPT !.current_step = step]

\* a node returned: its wrapper sets current_step and the edge picks the next
Advance(s, node, reads, st, msgs, next) ==
    turn' = [turn EXCEPT ![s] =
                [ pc      |-> IF next = "__end__" THEN "end" ELSE next,
                  msg     |-> turn[s].msg,
                  st      |-> st,
                  emitted |-> turn[s].emitted \o msgs,
                  ran     |-> Append(turn[s].ran, [node |-> node, reads |-> reads]) ]]

\* a node raised: ainvoke raises and nothing of the turn is kept
Raise(s, node, reads) ==
    turn' = [turn EXCEPT ![s].pc = "failed",
                         ![s].ran = Append(@, [node |-> node, reads |-> reads])]

\* send_message, lines 98-118: the lock is taken, the persisted state is read
\* (an empty dict for a new session), the text is added and the graph starts
\* in the dispatcher, which routes at once
BeginTurn(s, m) ==
    /\ turn[s].pc = "idle"
    /\ LET st == IF user_states[s] = NoState THEN NewState ELSE user_states[s]
       IN  turn' = [turn EXCEPT ![s] =
                [ pc |-> RouteDispatcher(st), msg |-> m, st |-> st,
                  emitted |-> <<>>, ran |-> <<>> ]]
    /\ UNCHANGED <<appointments, clients, now, lastCall, raceVars, guardVars, chatVars>>

\* greeting_wrapper / greeting_node: a cancellation request of a session with
\* a confirmed appointment, else the presentation (state["phone"] is never
\* set by the web chat, so the visitor is always a new client)
Greeting(s) ==
    /\ turn[s].pc = "greeting"
    /\ LET st == turn[s].st
           id == st.appointment_id
           r  == CancelAppointmentResult(appointments, id)
       IN  IF st.appointment_confirmed /\ id # NoId /\ HasCancelKeyword(turn[s].msg)
           THEN /\ appointments' = CancelAppointmentStore(appointments, id)
                /\ IF r = "ok"
                   THEN Advance(s, "greeting", TRUE,
                            Wrap([st EXCEPT !.appointment_confirmed = FALSE,
                                            !.appointment_id = NoId,
                                            !.conversation_mode = "idle"], "greeting"),
                            <<"cancel_ack">>, "__end__")
                   ELSE Advance(s, "greeting", TRUE, Wrap(st, "greeting"),
                            <<"cancel_error">>, "__end__")
           ELSE /\ Advance(s, "greeting", st.appointment_confirmed /\ id # NoId,
                        Wrap([st EXCEPT !.presentation_done = TRUE,
                                        !.conversation_mode = "greeting"], "greeting"),
                        <<"greeting">>, "__end__")
                /\ UNCHANGED appointments
    /\ UNCHANGED <<clients, now, lastCall, raceVars, guardVars, chatVars>>

\* mutant: a name or an email given in reply to the permission question is
\* kept without the permission being marked as granted
QuestionAnswererNode_NoGrant(st, m, intent, name, analysis) ==
    IF intent
    THEN [st |-> [st EXCEPT !.permission_granted = "True"], msgs |-> <<"ask_name">>, ok |-> TRUE]
    ELSE IF st.permission_asked /\ st.permission_granted = "None"
    THEN IF ~ExtractEmail(m) /\ name
         THEN [st |-> [st EXCEPT !.lead_name = TRUE],
               msgs |-> <<"ask_email">>, ok |-> TRUE]
         ELSE IF ExtractEmail(m)
         THEN [st |-> [st EXCEPT !.lead_email = TRUE],
               msgs |-> <<"ask_name">>, ok |-> TRUE]
         ELSE IF analysis = "raise"
         THEN [st |-> st, msgs |-> <<>>, ok |-> FALSE]
         ELSE IF analysis = "SIM"
         THEN [st |-> [st EXCEPT !.permission_granted = "True"],
               msgs |-> <<"ask_name">>, ok |-> TRUE]
         ELSE [st |-> st, msgs |-> <<"answer">>, ok |-> TRUE]
    ELSE [st |-> [st EXCEPT !.permission_asked = TRUE, !.conversation_mode = "qualification"],
          msgs |-> <<"answer">>, ok |-> TRUE]

\* question_answerer_node on the answers of its LLM calls: intent (does the
\* visitor want to schedule), name (is the text a full name) and analysis
\* (did the visitor accept); the analysis call is not guarded and may raise
QuestionAnswererNode(st, m, intent, name, analysis) ==
    IF intent
    THEN [st |-> [st EXCEPT !.permission_granted = "True"], msgs |-> <<"ask_name">>, ok |-> TRUE]
    ELSE IF st.permission_asked /\ st.permission_granted = "None"
    THEN IF ~ExtractEmail(m) /\ name
         THEN [st |-> [st EXCEPT !.permission_granted = "True", !.lead_name = TRUE],
               msgs |-> <<"ask_email">>, ok |-> TRUE]
         ELSE IF ExtractEmail(m)
         THEN [st |-> [st EXCEPT !.permission_granted = "True", !.lead_email = TRUE],
               msgs |-> <<"ask_name">>, ok |-> TRUE]
         ELSE IF analysis = "raise"
         THEN [st |-> st, msgs |-> <<>>, ok |-> FALSE]
         ELSE IF analysis = "SIM"
         THEN [st |-> [st EXCEPT !.permission_granted = "True"],
               msgs |-> <<"ask_name">>, ok |-> TRUE]
         ELSE [st |-> st, msgs |-> <<"answer">>, ok |-> TRUE]
    ELSE [st |-> [st EXCEPT !.permission_asked = TRUE, !.conversation_mode = "qualification"],
          msgs |-> <<"answer">>, ok |-> TRUE]

\* question_answerer_wrapper, then the edge question_answerer -> END
QuestionAnswerer(s) ==
    /\ turn[s].pc = "question_answerer"
    /\ \E intent \in BOOLEAN, name \in BOOLEAN, analysis \in {"SIM", "NAO", "raise"} :
         LET res == QuestionAnswererNode(turn[s].st, turn[s].msg, intent, name, analysis)
         IN  IF res.ok
             THEN Advance(s, "question_answerer", TRUE,
                          Wrap(res.st, "question_answerer"), res.msgs, "__end__")
             ELSE Raise(s, "question_answerer", TRUE)
    /\ UNCHANGED <<appointments, clients, now, lastCall, raceVars, guardVars, chatVars>>

\* mutant: the collection counts as complete once name and email are held
SimpleLeadCollectorNode_TwoFields(st, m) ==
    LET gotName     == ~st.lead_name /\ ExtractName(m)
        gotEmail    == ~st.lead_email /\ ExtractEmail(m)
        gotInterest == ~st.lead_interest /\ ExtractInterest(m)
        hasName     == st.lead_name \/ gotName
        hasEmail    == st.lead_email \/ gotEmail
        hasInterest == st.lead_interest \/ gotInterest
        filled      == [st EXCEPT !.lead_name = hasName, !.lead_email = hasEmail,
                                  !.lead_interest = hasInterest]
    IN  IF hasName /\ hasEmail
        THEN [st |-> [filled EXCEPT !.conversation_mode = "scheduling",
                                    !.lead_collection_complete = TRUE],
              msgs |-> <<"lead_complete">>]
        ELSE IF gotName \/ gotEmail \/ gotInterest
        THEN [st |-> filled,
              msgs |-> << IF ~hasEmail THEN "ask_email"
                          ELSE IF ~hasInterest THEN "ask_interest"
                          ELSE "one_more" >>]
        ELSE [st |-> filled, msgs |-> <<"lead_redirect">>]

\* simple_lead_collector_node: each missing field is looked for in the text
SimpleLeadCollectorNode(st, m) ==
    LET gotName     == ~st.lead_name /\ ExtractName(m)
        gotEmail    == ~st.lead_email /\ ExtractEmail(m)
        gotInterest == ~st.lead_interest /\ ExtractInterest(m)
        hasName     == st.lead_name \/ gotName
        hasEmail    == st.lead_email \/ gotEmail
        hasInterest == st.lead_interest \/ gotInterest
        filled      == [st EXCEPT !.lead_name = hasName, !.lead_email = hasEmail,
                                  !.lead_interest = hasInterest]
    IN  IF hasName /\ hasEmail /\ hasInterest
        THEN [st |-> [filled EXCEPT !.conversation_mode = "scheduling",
                                    !.lead_collection_complete = TRUE],
              msgs |-> <<"lead_complete">>]
        ELSE IF gotName \/ gotEmail \/ gotInterest
        THEN [st |-> filled,
              msgs |-> << IF ~hasEmail THEN "ask_email"
                          ELSE IF ~hasInterest THEN "ask_interest"
                          ELSE "one_more" >>]
        ELSE [st |-> filled, msgs |-> <<"lead_redirect">>]

\* lead_collector_wrapper, then route_after_lead_collector
SimpleLeadCollector(s) ==
    /\ turn[s].pc = "simple_lead_collector"
    /\ LET res == SimpleLeadCollectorNode(turn[s].st, turn[s].msg)
           st  == Wrap(res.st, "lead_collector")
       IN  Advance(s, "simple_lead_collector", TRUE, st, res.msgs,
                   RouteAfterLeadCollector(st))
    /\ UNCHANGED <<appointments, clients, now, lastCall, raceVars, guardVars, chatVars>>

\* ask_to_schedule_wrapper / ask_to_schedule_node, then route_after_ask: the
\* fixed question the first time, the yes/no analysis of the text afterwards
AskToSchedule(s) ==
    /\ turn[s].pc = "ask_to_schedule"
    /\ LET st == turn[s].st
           wants == DetectWantsToSchedule(turn[s].msg)
           asked == Wrap([st EXCEPT !.asked_to_schedule = TRUE,
                                    !.conversation_mode = "scheduling"], "ask_to_schedule")
           analysed == Wrap([st EXCEPT !.wants_to_schedule =
                                IF wants = "None" THEN "True" ELSE wants], "ask_to_schedule")
       IN  IF ~st.asked_to_schedule
           THEN Advance(s, "ask_to_schedule", FALSE, asked, <<"ask_schedule">>,
                        RouteAfterAsk(asked))
           ELSE Advance(s, "ask_to_schedule", TRUE, analysed, <<>>,
                        RouteAfterAsk(analysed))
    /\ UNCHANGED <<appointments, clients, now, lastCall, raceVars, guardVars, chatVars>>

\* the regex fallback of datetime_collector after a timeout needs a dd/mm
\* date in the text: "sexta 10h" has none, the texts written dd/mm have
FallbackDateTimeIn(m) == IF m = "sexta 10h" THEN NoTime ELSE DateTimeIn(m)

\* mutant: the test on the business hours is missing
DatetimeCollectorNode_NoHours(st, m, clock, outcome) ==
    LET t == IF outcome = "parsed" THEN DateTimeIn(m)
             ELSE IF outcome = "timeout" THEN FallbackDateTimeIn(m)
             ELSE NoTime
    IN  IF outcome = "NENHUM" THEN [st |-> st, msgs |-> <<"ask_datetime">>]
        ELSE IF outcome = "invalid" THEN [st |-> st, msgs |-> <<"dt_invalid">>]
        ELSE IF outcome = "error" THEN [st |-> st, msgs |-> <<"dt_error">>]
        ELSE IF t = NoTime THEN [st |-> st, msgs |-> <<"dt_timeout">>]
        ELSE IF Weekday(DateOf(t)) >= 5 THEN [st |-> st, msgs |-> <<"dt_weekend">>]
        ELSE IF t <= clock THEN [st |-> st, msgs |-> <<"dt_past">>]
        ELSE [st |-> [st EXCEPT !.requested_datetime = t], msgs |-> <<>>]

\* datetime_collector_node on the outcome of its extraction call
DatetimeCollectorNode(st, m, clock, outcome) ==
    LET t == IF outcome = "parsed" THEN DateTimeIn(m)
             ELSE IF outcome = "timeout" THEN FallbackDateTimeIn(m)
             ELSE NoTime
    IN  IF outcome = "NENHUM" THEN [st |-> st, msgs |-> <<"ask_datetime">>]
        ELSE IF outcome = "invalid" THEN [st |-> st, msgs |-> <<"dt_invalid">>]
        ELSE IF outcome = "error" THEN [st |-> st, msgs |-> <<"dt_error">>]
        ELSE IF t = NoTime THEN [st |-> st, msgs |-> <<"dt_timeout">>]
        ELSE IF Weekday(DateOf(t)) >= 5 THEN [st |-> st, msgs |-> <<"dt_weekend">>]
        ELSE IF HourOf(t) \notin MorningHours \cup AfternoonHours
            THEN [st |-> st, msgs |-> <<"dt_off_hours">>]
        ELSE IF t <= clock THEN [st |-> st, msgs |-> <<"dt_past">>]
        ELSE [st |-> [st EXCEPT !.requested_datetime = t], msgs |-> <<>>]

\* datetime_collector_wrapper, then route_after_datetime; a state that
\* already holds requested_datetime skips the extraction
DatetimeCollector(s) ==
    /\ turn[s].pc = "datetime_collector"
    /\ LET st == turn[s].st
       IN  IF st.requested_datetime # NoTime
           THEN Advance(s, "datetime_collector", FALSE, Wrap(st, "datetime_collector"),
                        <<>>, RouteAfterDatetime(st))
           ELSE \E outcome \in ExtractionOutcomes(turn[s].msg) :
                  LET res == DatetimeCollectorNode(st, turn[s].msg, now, outcome)
                  IN  Advance(s, "datetime_collector", TRUE,
                              Wrap(res.st, "datetime_collector"), res.msgs,
                              RouteAfterDatetime(res.st))
    /\ UNCHANGED <<appointments, clients, now, lastCall, raceVars, guardVars, chatVars>>

\* the list get_available_slots returns: the free hours in ascending order
RECURSIVE SlotList(_)
SlotList(hours) ==
    IF hours = {} THEN <<>>
    ELSE LET h == CHOOSE x \in hours : \A y \in hours : x <= y
         IN  <<h>> \o SlotList(hours \ {h})

\* slot_checker_node, lines 39-43: abs(time_to_minutes(s) - requested_minutes)
MinuteDistance(h, requested) ==
    IF h >= requested THEN (h - requested) * 60 ELSE (requested - h) * 60

\* sorted(available_slots, key=...): the sort is stable, a slot goes behind
\* every slot that is not farther from the requested time
RECURSIVE InsertByDistance(_, _, _)
InsertByDistance(sorted, h, requested) ==
    IF sorted = <<>> THEN <<h>>
    ELSE IF MinuteDistance(Head(sorted), requested) <= MinuteDistance(h, requested)
        THEN <<Head(sorted)>> \o InsertByDistance(Tail(sorted), h, requested)
    ELSE <<h>> \o sorted

RECURSIVE SortedByDistance(_, _)
SortedByDistance(slots, requested) ==
    IF slots = <<>> THEN <<>>
    ELSE InsertByDistance(SortedByDistance(SubSeq(slots, 1, Len(slots) - 1), requested),
                          slots[Len(slots)], requested)

\* mutant: the first three slots of the day, whatever the requested time
Alternatives_Unsorted(available, requested) ==
    SubSeq(SlotList(available), 1,
           IF Cardinality(available) < 3 THEN Cardinality(available) ELSE 3)

\* slot_checker_node, lines 46-47: alternatives = sorted_slots[:3]
Alternatives(available, requested) ==
    LET sorted == SortedByDistance(SlotList(available), requested)
    IN  SubSeq(sorted, 1, IF Len(sorted) < 3 THEN Len(sorted) ELSE 3)

\* slot_checker_wrapper / slot_checker_node, then route_after_slot_check: the
\* node returns current_step "datetime_collector" for an unavailable slot and
\* the wrapper replaces it
SlotChecker(s) ==
    /\ turn[s].pc = "slot_checker"
    /\ LET st == turn[s].st
           t  == st.requested_datetime
           available == GetAvailableSlots(appointments, DateOf(t))
           free  == Wrap([st EXCEPT !.slot_available = "True"], "slot_checker")
           taken == Wrap([st EXCEPT !.slot_available = "False",
                                    !.requested_datetime = NoTime,
                                    !.last_requested_date = DateOf(t)], "slot_checker")
       IN  IF t = NoTime
           THEN Advance(s, "slot_checker", FALSE, Wrap(st, "slot_checker"), <<>>,
                        RouteAfterSlotCheck(st))
           ELSE IF HourOf(t) \in available
           THEN Advance(s, "slot_checker", FALSE, free, <<>>, RouteAfterSlotCheck(free))
           ELSE Advance(s, "slot_checker", FALSE, taken,
                        << IF Alternatives(available, HourOf(t)) # <<>>
                           THEN "alternatives" ELSE "no_slots" >>,
                        RouteAfterSlotCheck(taken))
    /\ UNCHANGED <<appointments, clients, now, lastCall, raceVars, guardVars, chatVars>>

\* clientService.get_client_by_phone: the id of the lead, NoId when unknown
GetClientByPhone(cl, phone) ==
    IF \E i \in 1..Len(cl) : cl[i] = phone
    THEN CHOOSE i \in 1..Len(cl) : cl[i] = phone
    ELSE NoId

\* mutant: the previous appointments of the lead are left as they are
CancelPrevious_Keep(appts, c) == appts

\* appointment_creator_node, lines 97-114: every pending or confirmed
\* appointment of the lead is cancelled, each cancel_appointment commits
CancelPrevious(appts, c) ==
    [i \in 1..Len(appts) |->
        IF i \in ActiveOf(appts, c) THEN [appts[i] EXCEPT !.status = "cancelled"]
        ELSE appts[i]]

\* appointment_creator_node, lines 116-125: AppointmentCreate validates the
\* date, then create_appointment runs on the table left by the cancellations
BookingResult(appts, cl, clock, c, t) ==
    IF t < clock THEN "validation_error"
    ELSE CreateAppointmentResult(CancelPrevious(appts, c), cl, clock, c, t)

\* appointment_creator_wrapper / appointment_creator_node, then the edge
\* appointment_creator -> confirmation.  created: ClientCreate and
\* create_client accept the lead data (their failure is caught by the node);
\* a failure of cancel/create is not caught and ends the invocation
AppointmentCreator(s) ==
    /\ turn[s].pc = "appointment_creator"
    /\ LET st == turn[s].st
           t  == IF st.slot_available = "True" THEN st.requested_datetime
                 ELSE st.chosen_slot
           known == IF st.client_id # NoId THEN st.client_id
                    ELSE GetClientByPhone(clients, PhoneOf(s))
           step == Wrap(st, "appointment_creator")
       IN  IF t = NoTime
           THEN /\ Advance(s, "appointment_creator", FALSE, step, <<>>, "confirmation")
                /\ UNCHANGED <<appointments, clients>>
           ELSE IF st.client_id = NoId
                   /\ ~(st.lead_name /\ st.lead_email /\ st.lead_interest)
           THEN /\ Advance(s, "appointment_creator", FALSE, step,
                           <<"need_lead_data">>, "confirmation")
                /\ UNCHANGED <<appointments, clients>>
           ELSE \E created \in (IF known = NoId THEN BOOLEAN ELSE {TRUE}) :
                  IF ~created
                  THEN /\ Advance(s, "appointment_creator", FALSE, step,
                                  <<"client_error">>, "confirmation")
                       /\ UNCHANGED <<appointments, clients>>
                  ELSE LET cl  == IF known = NoId THEN Append(clients, PhoneOf(s))
                                  ELSE clients
                           c   == IF known = NoId THEN Len(clients) + 1 ELSE known
                           r   == BookingResult(appointments, cl, now, c, t)
                           previous == CancelPrevious(appointments, c)
                       IN  /\ r = "ok" => Len(appointments) < MaxAppointments
                           /\ clients' = cl
                           /\ IF r = "ok"
                              THEN /\ appointments' = Append(previous,
                                        NewAppointment(c, t, "Consultoria Gratuita"))
                                   /\ Advance(s, "appointment_creator", FALSE,
                                        [step EXCEPT !.client_id = c,
                                                     !.appointment_id = Len(appointments) + 1,
                                                     !.appointment_confirmed = TRUE,
                                                     !.conversation_mode = "completed"],
                                        << IF ActiveOf(appointments, c) # {}
                                           THEN "rescheduled" ELSE "booked" >>,
                                        "confirmation")
                              ELSE /\ appointments' = previous
                                   /\ Raise(s, "appointment_creator", FALSE)
    /\ UNCHANGED <<now, lastCall, raceVars, guardVars, chatVars>>

\* mutant: the mode the node returns is kept, the wrapper only sets the step
Confirmation_NodeMode(s) ==
    /\ turn[s].pc = "confirmation"
    /\ LET st == turn[s].st
       IN  IF st.wants_to_schedule = "False"
           THEN Advance(s, "confirmation", FALSE,
                    Wrap([st EXCEPT !.final_response = "farewell",
                                    !.conversation_mode = "idle"], "confirmation"),
                    <<"farewell">>, "__end__")
           ELSE Advance(s, "confirmation", FALSE,
                    Wrap([st EXCEPT !.final_response = "confirmation",
                                    !.appointment_confirmed = TRUE,
                                    !.conversation_mode = "idle"], "confirmation"),
                    <<"confirmation">>, "__end__")
    /\ UNCHANGED <<appointments, clients, now, lastCall, raceVars, guardVars, chatVars>>

\* confirmation_wrapper / confirmation_node, then the edge confirmation -> END:
\* the node returns conversation_mode "idle", which the wrapper replaces by
\* "completed" together with current_step
Confirmation(s) ==
    /\ turn[s].pc = "confirmation"
    /\ LET st == turn[s].st
       IN  IF st.wants_to_schedule = "False"
           THEN Advance(s, "confirmation", FALSE,
                    Wrap([st EXCEPT !.final_response = "farewell",
                                    !.conversation_mode = "completed"], "confirmation"),
                    <<"farewell">>, "__end__")
           ELSE Advance(s, "confirmation", FALSE,
                    Wrap([st EXCEPT !.final_response = "confirmation",
                                    !.appointment_confirmed = TRUE,
                                    !.conversation_mode = "completed"], "confirmation"),
                    <<"confirmation">>, "__end__")
    /\ UNCHANGED <<appointments, clients, now, lastCall, raceVars, guardVars, chatVars>>

\* send_message, lines 128-138: the response is extracted, the result of the
\* graph replaces the persisted state and the lock is released
ReturnTurn(s) ==
    /\ turn[s].pc = "end"
    /\ user_states' = [user_states EXCEPT ![s] = turn[s].st]
    /\ turn' = [turn EXCEPT ![s] = IdleTurn]
    /\ UNCHANGED <<appointments, clients, now, lastCall, raceVars, guardVars>>

\* send_message, lines 140-145: the exception becomes HTTP 500, the persisted
\* state is not replaced and the lock is released
FailTurn(s) ==
    /\ turn[s].pc = "failed"
    /\ turn' = [turn EXCEPT ![s] = IdleTurn]
    /\ UNCHANGED <<appointments, clients, now, lastCall, raceVars, guardVars, chatVars>>

Next ==
    \/ \E s \in ChatSessions, m \in Messages : BeginTurn(s, m)
    \/ \E s \in ChatSessions : Greeting(s)
    \/ \E s \in ChatSessions : QuestionAnswerer(s)
    \/ \E s \in ChatSessions : SimpleLeadCollector(s)
    \/ \E s \in ChatSessions : AskToSchedule(s)
    \/ \E s \in ChatSessions : DatetimeCollector(s)
    \/ \E s \in ChatSessions : SlotChecker(s)
    \/ \E s \in ChatSessions : AppointmentCreator(s)
    \/ \E s \in ChatSessions : Confirmation(s)
    \/ \E s \in ChatSessions : ReturnTurn(s)
    \/ \E s \in ChatSessions : FailTurn(s)
    \/ \E phone \in Phones : CreateClient(phone) /\ UNCHANGED lastCall
    \/ \E c \in ClientIds, t \in BookTimes : CreateAppointment(c, t) /\ UNCHANGED lastCall
    \/ \E id \in 1..MaxAppointments : CancelAppointment(id) /\ UNCHANGED lastCall
    \/ Tick /\ UNCHANGED lastCall

Spec == InitCommon /\ [][Next]_vars

(***************************************************************************)
(* One chat session on its own: nobody else touches the tables, the        *)
(* visitor may name any date and may reset the conversation between turns. *)
(***************************************************************************)
\* the inbound texts of the visitor, with dates written dd/mm (day 0 is
\* Thursday 01/01): a Thursday, Friday 11h, 12h, 14h and 18h, a Saturday
ChatMessages ==
    Messages \cup {"01/01 10h", "02/01 11h", "02/01 12h", "02/01 14h",
                   "02/01 18h", "03/01 10h"}

\* POST /chat/reset between two turns of the session: the lock is free, the
\* body deletes the state (and the lock, which the next request recreates)
ResetSession(s) ==
    /\ turn[s].pc = "idle"
    /\ user_states' = ResetStates(s)
    /\ UNCHANGED <<storeVars, raceVars, guardVars, dialogVars>>

NextChat ==
    \/ \E s \in ChatSessions, m \in ChatMessages : BeginTurn(s, m)
    \/ \E s \in ChatSessions : Greeting(s)
    \/ \E s \in ChatSessions : QuestionAnswerer(s)
    \/ \E s \in ChatSessions : SimpleLeadCollector(s)
    \/ \E s \in ChatSessions : AskToSchedule(s)
    \/ \E s \in ChatSessions : DatetimeCollector(s)
    \/ \E s \in ChatSessions : SlotChecker(s)
    \/ \E s \in ChatSessions : AppointmentCreator(s)
    \/ \E s \in ChatSessions : Confirmation(s)
    \/ \E s \in ChatSessions : ReturnTurn(s)
    \/ \E s \in ChatSessions : FailTurn(s)
    \/ \E s \in ChatSessions : ResetSession(s)
    \/ Tick /\ UNCHANGED lastCall

SpecChat == InitCommon /\ [][NextChat]_vars

(***************************************************************************)
(* Claims on the dialogue engine                                           *)
(***************************************************************************)
\* the closed set of step names the wrappers of graph.py write
StepNames == {"greeting", "question_answerer", "lead_collector", "ask_to_schedule",
              "datetime_collector", "slot_checker", "appointment_creator",
              "confirmation"}
\* the steps that only run chained after another step of the same turn
AutoChainingOnly == {"slot_checker", "appointment_creator"}

\* C1: after every send_message that completes, the persisted current_step
\* of every session is one of the closed set of step names and is a
\* wait-for-input step, never slot_checker or appointment_creator.
C1_PersistedStepWaitsForInput ==
    \A s \in ChatSessions :
        user_states[s] # NoState
            => /\ user_states[s].current_step \in StepNames
               /\ user_states[s].current_step \notin AutoChainingOnly

\* the lead appointment_creator books for: the client_id of the state, else
\* the client registered under the phone of the session, else a new client
LeadOf(s) ==
    IF turn[s].st.client_id # NoId THEN turn[s].st.client_id
    ELSE IF GetClientByPhone(clients, PhoneOf(s)) # NoId
        THEN GetClientByPhone(clients, PhoneOf(s))
    ELSE Len(clients) + 1

\* slot_checker found the requested slot free and, now that
\* appointment_creator runs, an appointment of another lead holds it
SlotTakenSinceCheck(s) ==
    /\ turn[s].pc = "appointment_creator"
    /\ turn[s].st.slot_available = "True"
    /\ turn[s].st.requested_datetime >= now
    /\ \E i \in ConflictRows(appointments, turn[s].st.requested_datetime) :
            appointments[i].client_id # LeadOf(s)

\* the last text the turn in progress emitted, "" when it emitted none
LastEmitted(t) == IF t.emitted = <<>> THEN "" ELSE t.emitted[Len(t.emitted)]

\* C5: when the requested slot is taken between the check of slot_checker
\* and the insert of appointment_creator (the lead is registered and
\* create_appointment reports the slot occupied), the turn still ends
\* normally, back at the datetime-collection step with a message offering
\* alternatives; the caller gets no raw error.
C5_TakenSlotRecovered ==
    [][ \A s \in ChatSessions :
            ( /\ SlotTakenSinceCheck(s)
              /\ turn'[s] # turn[s]
              /\ LastEmitted(turn'[s]) \notin {"client_error", "need_lead_data"} )
                => /\ turn'[s].pc = "end"
                   /\ turn'[s].st.current_step = "datetime_collector"
                   /\ LastEmitted(turn'[s]) \in {"alternatives", "no_slots"}
      ]_vars

\* C6: when appointment_creator books for a lead that has pending or
\* confirmed appointments and the creation succeeds, every one of those
\* appointments is cancelled and the new appointment is the only active one
\* of the lead.
C6_RescheduleLeavesOneActive ==
    [][ \A s \in ChatSessions :
            ( /\ turn[s].pc = "appointment_creator"
              /\ turn'[s].pc = "confirmation"
              /\ Len(appointments') = Len(appointments) + 1
              /\ ActiveOf(appointments, LeadOf(s)) # {} )
                => /\ \A i \in ActiveOf(appointments, LeadOf(s)) :
                            appointments'[i].status = "cancelled"
                   /\ ActiveOf(appointments', LeadOf(s)) = {Len(appointments')}
                   /\ appointments'[Len(appointments')].client_id = LeadOf(s)
      ]_vars

\* appointment_creator has just rebooked a lead that had an active appointment
C6_Witness ==
    \E s \in ChatSessions :
        /\ turn[s].pc = "confirmation"
        /\ LastEmitted(turn[s]) = "rescheduled"
        /\ Cardinality(ActiveOf(appointments, turn[s].st.client_id)) = 1
        /\ \E i \in 1..Len(appointments) :
              /\ appointments[i].client_id = turn[s].st.client_id
              /\ appointments[i].status = "cancelled"

\* the steps of the turn in progress that interpreted the inbound text
TextSteps(s) == {i \in 1..Len(turn[s].ran) : turn[s].ran[i].reads}

\* C8: within one turn at most one step interprets the text of the inbound
\* message; every further step of the turn is an auto-chaining step that
\* needs no user text.
C8_OneTextStepPerTurn ==
    \A s \in ChatSessions : Cardinality(TextSteps(s)) <= 1

\* the texts emitted by the steps of the turn in progress
EmittedTexts(s) == {turn[s].emitted[i] : i \in 1..Len(turn[s].emitted)}

\* C9: the response text send_message returns for a turn is a message
\* emitted by a step of that same turn, never a text of an earlier turn.
C9_ResponseFromThisTurn ==
    \A s \in ChatSessions :
        turn[s].pc = "end"
            => ExtractAgentResponse(turn[s].st, turn[s].emitted) \in EmittedTexts(s)

\* the turn in progress started on a session with a confirmed appointment
\* and its text holds a cancellation keyword
CancelRequested(s) ==
    /\ turn[s].pc \in {"end", "failed"}
    /\ user_states[s] # NoState
    /\ user_states[s].appointment_confirmed
    /\ user_states[s].appointment_id # NoId
    /\ HasCancelKeyword(turn[s].msg)

\* C10: a turn with a cancellation keyword on a session that has a confirmed
\* appointment cancels that appointment, clears appointment_confirmed and
\* appointment_id, answers with the cancellation acknowledgement and
\* executes no step but greeting.
C10_CancelTurn ==
    \A s \in ChatSessions :
        CancelRequested(s)
            => /\ turn[s].pc = "end"
               /\ appointments[user_states[s].appointment_id].status = "cancelled"
               /\ ~turn[s].st.appointment_confirmed
               /\ turn[s].st.appointment_id = NoId
               /\ ExtractAgentResponse(turn[s].st, turn[s].emitted) = "cancel_ack"
               /\ Len(turn[s].ran) = 1
               /\ turn[s].ran[1].node = "greeting"

(***************************************************************************)
(* Lead collection with the texts kept: what simple_lead_collector stores  *)
(* in lead_name, lead_email and lead_interest for the messages of a        *)
(* session that has granted permission.  A text is known by the facts the  *)
(* extraction functions test.                                              *)
(***************************************************************************)
\* turns of the session that are followed
MaxLeadTurns == 4

LeadMessages ==
    {"maria silva", "fernanda costa silva", "Maria@X.com",
     "preciso de mais clientes", "quero vender mais online", "clientes",
     "qual o preco?"}

\* len(text.strip().split())
WordCount(m) ==
    CASE m \in {"Maria@X.com", "clientes"} -> 1
      [] m = "maria silva" -> 2
      [] m \in {"fernanda costa silva", "qual o preco?"} -> 3
      [] m \in {"preciso de mais clientes", "quero vender mais online"} -> 4
\* len(text.strip())
CharCount(m) ==
    CASE m = "clientes" -> 8
      [] m \in {"maria silva", "Maria@X.com"} -> 11
      [] m = "qual o preco?" -> 13
      [] m = "fernanda costa silva" -> 20
      [] m \in {"preciso de mais clientes", "quero vender mais online"} -> 24
\* every word matches ^[a-zA-Z\u00C0-\u017F]+$
AllWordsAlphabetic(m) == m \notin {"Maria@X.com", "qual o preco?"}
\* '?' in text, '@' in text
HasQuestionMark(m) == m = "qual o preco?"
HasAt(m) == m = "Maria@X.com"
\* a reject pattern ('quero', 'nao', 'sim', 'ok', ...) is a substring of the
\* lower-cased text
HasRejectPattern(m) == m = "quero vender mais online"
\* str.title() of the stripped text
Title(m) ==
    CASE m = "maria silva" -> "Maria Silva"
      [] m = "fernanda costa silva" -> "Fernanda Costa Silva"
      [] m = "preciso de mais clientes" -> "Preciso De Mais Clientes"
      [] m = "quero vender mais online" -> "Quero Vender Mais Online"
      [] m = "clientes" -> "Clientes"
      [] m = "qual o preco?" -> "Qual O Preco?"
      [] m = "Maria@X.com" -> "Maria@X.Com"
\* the match of EMAIL_REGEX in the text, "" when there is none
EmailMatch(m) == IF m = "Maria@X.com" THEN "Maria@X.com" ELSE ""
\* str.lower()
Lower(m) == IF m = "Maria@X.com" THEN "maria@x.com" ELSE m

\* simple_lead_collector._extract_name, "" for None
ExtractedName(m) ==
    IF HasQuestionMark(m) \/ HasAt(m) THEN ""
    ELSE IF HasRejectPattern(m) THEN ""
    ELSE IF WordCount(m) >= 2 /\ WordCount(m) <= 5 /\ AllWordsAlphabetic(m)
         THEN Title(m)
    ELSE ""
\* simple_lead_collector._extract_email, "" for None
ExtractedEmail(m) == IF EmailMatch(m) # "" THEN Lower(EmailMatch(m)) ELSE ""
\* simple_lead_collector._extract_interest, "" for None
ExtractedInterest(m) ==
    IF HasAt(m) THEN ""
    ELSE IF WordCount(m) < 3 THEN ""
    ELSE IF CharCount(m) >= 15 THEN m
    ELSE ""

\* the fields of the state that lead collection reads or writes, as the
\* first turn of a session persists them (greeting_node on the empty state),
\* with the texts the visitor sent since the permission was granted
GreetedLeadState ==
    [ current_step             |-> "greeting",
      conversation_mode        |-> "greeting",
      presentation_done        |-> TRUE,
      permission_asked         |-> FALSE,
      permission_granted       |-> "None",
      lead_name                |-> "",
      lead_email               |-> "",
      lead_interest            |-> "",
      lead_collection_complete |-> FALSE,
      asked_to_schedule        |-> FALSE,
      wants_to_schedule        |-> "None",
      messages                 |-> <<>> ]

\* the first turn of the session: greeting
FirstTurn(s) ==
    /\ user_states[s] = NoState
    /\ user_states' = [user_states EXCEPT ![s] = GreetedLeadState]
    /\ UNCHANGED <<storeVars, raceVars, guardVars, dialogVars>>

\* a turn of question_answerer on a text that holds no name and no email
\* ("quero agendar", "sim", a question): a scheduling intent or the
\* acceptance of the permission question grants the permission, the first
\* answer asks for it
QuestionTurn(s) ==
    /\ user_states[s] # NoState
    /\ RouteDispatcher(user_states[s]) = "question_answerer"
    /\ \E intent \in BOOLEAN, analysis \in {"SIM", "NAO"} :
         LET st == user_states[s]
             res == IF intent THEN [st EXCEPT !.permission_granted = "True"]
                    ELSE IF st.permission_asked /\ st.permission_granted = "None"
                    THEN IF analysis = "SIM"
                         THEN [st EXCEPT !.permission_granted = "True"]
                         ELSE st
                    ELSE [st EXCEPT !.permission_asked = TRUE,
                                    !.conversation_mode = "qualification"]
         IN  user_states' = [user_states EXCEPT ![s] = Wrap(res, "question_answerer")]
    /\ UNCHANGED <<storeVars, raceVars, guardVars, dialogVars>>

\* simple_lead_collector_node with the texts kept: every field still missing
\* is looked for in the same message
LeadCollectorNode(st, m) ==
    LET name     == IF st.lead_name = "" THEN ExtractedName(m) ELSE ""
        email    == IF st.lead_email = "" THEN ExtractedEmail(m) ELSE ""
        interest == IF st.lead_interest = "" THEN ExtractedInterest(m) ELSE ""
        filled   == [st EXCEPT
                      !.lead_name     = IF name # "" THEN name ELSE @,
                      !.lead_email    = IF email # "" THEN email ELSE @,
                      !.lead_interest = IF interest # "" THEN interest ELSE @]
    IN  IF filled.lead_name # "" /\ filled.lead_email # "" /\ filled.lead_interest # ""
        THEN [filled EXCEPT !.conversation_mode = "scheduling",
                            !.lead_collection_complete = TRUE]
        ELSE filled

\* a turn that route_dispatcher sends to simple_lead_collector; when the
\* collection completes route_after_lead_collector chains into
\* ask_to_schedule, which asks its question and ends the turn
LeadCollectorTurn(s, m) ==
    /\ user_states[s] # NoState
    /\ Len(user_states[s].messages) < MaxLeadTurns
    /\ LET st  == [user_states[s] EXCEPT !.messages = Append(@, m)]
           res == Wrap(LeadCollectorNode(st, m), "lead_collector")
           ask == Wrap([res EXCEPT !.asked_to_schedule = TRUE,
                                   !.conversation_mode = "scheduling"],
                       "ask_to_schedule")
       IN  /\ RouteDispatcher(st) = "simple_lead_collector"
           /\ user_states' = [user_states EXCEPT ![s] =
                  IF RouteAfterLeadCollector(res) = "ask_to_schedule"
                      THEN ask ELSE res]
    /\ UNCHANGED <<storeVars, raceVars, guardVars, dialogVars>>

\* the turn after the question of ask_to_schedule: the node reads yes or no
\* in the text; on no the turn ends in confirmation, otherwise in
\* datetime_collector, which finds no date in these texts and asks for one
ScheduleReplyTurn(s, m) ==
    /\ user_states[s] # NoState
    /\ Len(user_states[s].messages) < MaxLeadTurns
    /\ LET st    == [user_states[s] EXCEPT !.messages = Append(@, m)]
           wants == DetectWantsToSchedule(m)
           analysed == Wrap([st EXCEPT !.wants_to_schedule =
                                IF wants = "None" THEN "True" ELSE wants],
                            "ask_to_schedule")
       IN  /\ RouteDispatcher(st) = "ask_to_schedule"
           /\ st.asked_to_schedule /\ st.wants_to_schedule = "None"
           /\ user_states' = [user_states EXCEPT ![s] =
                  IF RouteAfterAsk(analysed) = "confirmation"
                      THEN Wrap([analysed EXCEPT !.conversation_mode = "completed"],
                                "confirmation")
                      ELSE Wrap(analysed, "datetime_collector")]
    /\ UNCHANGED <<storeVars, raceVars, guardVars, dialogVars>>

NextLead ==
    \/ \E s \in ChatSessions : FirstTurn(s)
    \/ \E s \in ChatSessions : QuestionTurn(s)
    \/ \E s \in ChatSessions, m \in LeadMessages : LeadCollectorTurn(s, m)
    \/ \E s \in ChatSessions, m \in LeadMessages : ScheduleReplyTurn(s, m)

SpecLead == InitCommon /\ [][NextLead]_vars

\* C15: when a name message, an email message and an interest message have
\* arrived in three separate turns, in any order, lead_name is the name of
\* the name message, lead_email the address of the email message and
\* lead_interest the text of the interest message, lead_collection_complete
\* is true and the mode is scheduling.
C15_EachFieldFromItsMessage ==
    \A s \in ChatSessions : \A n, e, i \in LeadMessages :
        LET st == user_states[s]
        IN  ( /\ st # NoState
              /\ ExtractedName(n) # "" /\ ExtractedEmail(e) # ""
              /\ ExtractedInterest(i) # ""
              /\ Cardinality({n, e, i}) = 3
              /\ Len(st.messages) = 3
              /\ {st.messages[k] : k \in 1..3} = {n, e, i} )
            => /\ st.lead_name = ExtractedName(n)
               /\ st.lead_email = ExtractedEmail(e)
               /\ st.lead_interest = ExtractedInterest(i)
               /\ st.lead_collection_complete
               /\ st.conversation_mode = "scheduling"

\* C16: after a valid full name and a valid email were given in earlier
\* turns, a turn whose message has fewer than 3 words or fewer than 15
\* characters leaves lead_collection_complete false and the mode different
\* from scheduling.
C16_ShortMessageDoesNotComplete ==
    [][ \A s \in ChatSessions :
          LET h == user_states[s].messages
              m == user_states'[s].messages[Len(h) + 1]
          IN  ( /\ user_states[s] # NoState
                /\ Len(user_states'[s].messages) = Len(h) + 1
                /\ \E k \in 1..Len(h) : ExtractedName(h[k]) # ""
                /\ \E k \in 1..Len(h) : ExtractedEmail(h[k]) # ""
                /\ (WordCount(m) < 3 \/ CharCount(m) < 15) )
              => /\ ~user_states'[s].lead_collection_complete
                 /\ user_states'[s].conversation_mode # "scheduling" ]_vars

(***************************************************************************)
(* Claims on one chat session                                              *)
(***************************************************************************)
\* the state the first turn of a brand-new session persists
FirstTurnState ==
    Wrap([NewState EXCEPT !.presentation_done = TRUE,
                          !.conversation_mode = "greeting"], "greeting")

\* C13: reset_session discards the persisted state of the session; on a
\* session without persisted state it changes nothing; and the first turn
\* after a reset is the first turn of a brand-new session: it starts from
\* the empty state, runs the greeting step only and shows no field of the
\* previous conversation.
C13_ResetStartsAfresh ==
    /\ [][ \A s \in ChatSessions :
                (turn[s].pc = "idle" /\ turn'[s].pc = "idle"
                                     /\ user_states'[s] # user_states[s])
                    => user_states'[s] = NoState ]_vars
    /\ [](\A s \in ChatSessions :
                user_states[s] = NoState => ResetStates(s) = user_states)
    /\ [](\A s \in ChatSessions :
                (turn[s].pc # "idle" /\ user_states[s] = NoState)
                    => \/ /\ turn[s].pc = "greeting"
                          /\ turn[s].st = NewState
                          /\ turn[s].ran = <<>>
                       \/ /\ turn[s].pc = "end"
                          /\ turn[s].st = FirstTurnState
                          /\ turn[s].ran = <<[node |-> "greeting", reads |-> FALSE]>>
                          /\ turn[s].emitted = <<"greeting">>
                          /\ ExtractAgentResponse(turn[s].st, turn[s].emitted)
                                = "greeting")

\* the first turn after the reset of a conversation that had booked an
\* appointment has run
C13_Witness ==
    \E s \in ChatSessions :
        /\ user_states[s] = NoState
        /\ turn[s].pc = "end"
        /\ \E i \in 1..Len(appointments) :
              appointments[i].meeting_type = "Consultoria Gratuita"

\* the prompts datetime_collector answers with when it records no date
CorrectivePrompts ==
    {"ask_datetime", "dt_invalid", "dt_error", "dt_timeout", "dt_weekend",
     "dt_off_hours", "dt_past"}

\* Monday to Friday, 09:00-12:00 or 14:00-18:00
InBusinessWindow(t) ==
    /\ Weekday(DateOf(t)) \in 0..4
    /\ \/ (HourOf(t) >= 9 /\ HourOf(t) < 12)
       \/ (HourOf(t) >= 14 /\ HourOf(t) < 18)

\* the node the turn in progress executed last
LastNode(t) == IF t.ran = <<>> THEN "" ELSE t.ran[Len(t.ran)].node

\* C14: datetime_collector records requested_datetime (and the turn chains
\* into slot_checker) only if the date/time extracted from the text is on
\* Monday to Friday, inside a business window and strictly after now; in
\* every other case it emits a corrective prompt, leaves requested_datetime
\* unset, creates no appointment and the persisted step is
\* datetime_collector.
C14_OnlyValidDateTimeRecorded ==
    [][ \A s \in ChatSessions :
          /\ ( /\ turn[s].pc = "datetime_collector"
                /\ turn[s].st.requested_datetime = NoTime
                /\ turn'[s] # turn[s] )
              => IF turn'[s].st.requested_datetime # NoTime
                 THEN /\ turn'[s].st.requested_datetime
                            \in {DateTimeIn(turn[s].msg), FallbackDateTimeIn(turn[s].msg)}
                      /\ InBusinessWindow(turn'[s].st.requested_datetime)
                      /\ turn'[s].st.requested_datetime > now
                      /\ turn'[s].pc = "slot_checker"
                 ELSE /\ turn'[s].pc = "end"
                      /\ Len(turn'[s].emitted) = Len(turn[s].emitted) + 1
                      /\ LastEmitted(turn'[s]) \in CorrectivePrompts
                      /\ turn'[s].st.current_step = "datetime_collector"
                      /\ appointments' = appointments
          /\ ( /\ turn[s].pc = "end" /\ turn'[s].pc = "idle"
                /\ LastNode(turn[s]) = "datetime_collector" )
              => /\ user_states'[s].current_step = "datetime_collector"
                 /\ user_states'[s].requested_datetime = NoTime
                 /\ appointments' = appointments
      ]_vars

\* a turn is ending on the prompt for a date that has passed
C14_Witness ==
    \E s \in ChatSessions :
        /\ turn[s].pc = "end"
        /\ LastNode(turn[s]) = "datetime_collector"
        /\ LastEmitted(turn[s]) = "dt_past"
        /\ turn[s].st.requested_datetime = NoTime

\* the datetime_collector node has interpreted the text of this turn
ExtractedThisTurn(tn) ==
    \E k \in 1..Len(tn.ran) : tn.ran[k].node = "datetime_collector" /\ tn.ran[k].reads

\* appointment_creator of session s creates an appointment in this step
CreatesInTurn(s) ==
    /\ turn[s].pc = "appointment_creator"
    /\ turn'[s].pc = "confirmation"
    /\ Len(appointments') = Len(appointments) + 1

\* C24: once a booking attempt of the session has ended with a confirmation
\* (and possibly a cancellation through the chat), a later turn creates an
\* appointment only if its datetime_collector extracted the date and time from
\* the text of that turn; the requested_datetime, slot_available and
\* wants_to_schedule left by the ended attempt do not drive a new booking
C24_BookingFromThisTurn ==
    [][ \A s \in ChatSessions :
          ( /\ CreatesInTurn(s)
            /\ user_states[s] # NoState
            /\ user_states[s].final_response = "confirmation" )
          => ExtractedThisTurn(turn[s])
      ]_vars

\* C25: a persisted state with appointment_confirmed = true names, in
\* appointment_id, a record of the store that belongs to the lead of the
\* session: the confirmation is reported only when an appointment was created
C25_ConfirmedMeansCreated ==
    \A s \in ChatSessions :
        ( /\ user_states[s] # NoState
          /\ user_states[s].appointment_confirmed )
        => /\ user_states[s].appointment_id \in 1..Len(appointments)
           /\ appointments[user_states[s].appointment_id].client_id
                  = GetClientByPhone(clients, PhoneOf(s))

\* C26: in the reschedule path of appointment_creator the cancellation of the
\* previous appointments and the creation of the new one take effect together
\* or not at all: when the creation fails (slot occupied, time in the past),
\* the appointments of the lead that were active are still active
C26_RescheduleAllOrNothing ==
    [][ \A s \in ChatSessions :
          ( /\ turn[s].pc = "appointment_creator"
            /\ turn'[s].pc = "failed" )
          => \A i \in ActiveOf(appointments, LeadOf(s)) :
                 appointments'[i].status = appointments[i].status
      ]_vars

(***************************************************************************)
(* Two chat sessions at once.  The session ids are chosen by the clients;  *)
(* those of tests/test_agent_stress.py share their first eight characters  *)
(* (sid_base + "-var-" + i), as the two followed here do.  The visitors     *)
(* write in turn: a message is sent when no turn is in progress.           *)
(***************************************************************************)
PairSessions == {"aaaaaaaa-1", "aaaaaaaa-2"}

\* the inbound texts of the two visitors: the lead data, the acceptance and
\* two times of the Friday
PairMessages == {"sim", "maria@x.com", "preciso de mais clientes",
                 "sexta 10h", "02/01 11h"}

\* empty tables and no state for either session
InitPair ==
    /\ appointments = <<>>
    /\ clients = <<>>
    /\ now = 0
    /\ lastCall = NoCall
    /\ calls = [k \in Callers |-> IdleCall]
    /\ session_locks = [s \in SessionIds |-> NoLock]
    /\ locks = <<>>
    /\ requests = <<>>
    /\ user_states = [s \in PairSessions |-> NoState]
    /\ turn = [s \in PairSessions |-> IdleTurn]

NextPair ==
    \/ \E s \in PairSessions, m \in PairMessages :
          /\ \A o \in PairSessions : turn[o].pc = "idle"
          /\ BeginTurn(s, m)
    \/ \E s \in PairSessions : Greeting(s)
    \/ \E s \in PairSessions : QuestionAnswerer(s)
    \/ \E s \in PairSessions : SimpleLeadCollector(s)
    \/ \E s \in PairSessions : AskToSchedule(s)
    \/ \E s \in PairSessions : DatetimeCollector(s)
    \/ \E s \in PairSessions : SlotChecker(s)
    \/ \E s \in PairSessions : AppointmentCreator(s)
    \/ \E s \in PairSessions : Confirmation(s)
    \/ \E s \in PairSessions : ReturnTurn(s)
    \/ \E s \in PairSessions : FailTurn(s)

SpecPair == InitPair /\ [][NextPair]_vars

\* C27: a turn of one session leaves alone every appointment that another
\* session id holds as its booking (appointment_id of its persisted state):
\* appointment_creator cancels and replaces only appointments of its own
\* session, the lead of a session is not the lead of another session id
C27_SessionsIsolated ==
    [][ \A s, o \in PairSessions :
          ( /\ s # o
            /\ turn[s].pc = "appointment_creator"
            /\ turn'[s] # turn[s]
            /\ user_states[o] # NoState
            /\ user_states[o].appointment_id \in 1..Len(appointments) )
          => appointments'[user_states[o].appointment_id]
                 = appointments[user_states[o].appointment_id]
      ]_vars

(***************************************************************************)
(* route_dispatcher on its own: the function is applied to a persisted     *)
(* state whatever step and mode it names, the steps no turn ends on        *)
(* included ("nao deveria chegar aqui").                                   *)
(***************************************************************************)
\* the values the nodes write into conversation_mode
ModeNames == {"", "greeting", "qualification", "scheduling", "idle", "completed"}

\* the persisted states handed to the dispatcher
PersistedStates ==
    { [NewState EXCEPT !.current_step = step, !.conversation_mode = mode,
                       !.presentation_done = done,
                       !.lead_collection_complete = complete,
                       !.wants_to_schedule = wants] :
        step \in StepNames \cup {""}, mode \in ModeNames, done \in BOOLEAN,
        complete \in BOOLEAN, wants \in {"None", "True", "False"} }

InitDispatch ==
    /\ appointments = <<>>
    /\ clients = <<>>
    /\ now = 0
    /\ lastCall = NoCall
    /\ calls = [k \in Callers |-> IdleCall]
    /\ session_locks = [s \in SessionIds |-> NoLock]
    /\ locks = <<>>
    /\ requests = <<>>
    /\ \E st \in PersistedStates :
          user_states = [s \in SessionIds |->
                            IF s \in ChatSessions THEN st ELSE NoState]
    /\ turn = [s \in ChatSessions |-> IdleTurn]

\* a new turn arrives and the dispatcher routes it
NextDispatch == \E s \in ChatSessions : BeginTurn(s, "sim")

SpecDispatch == InitDispatch /\ [][NextDispatch]_vars

BlockDates == {1, 2}
\* the timestamps booked beside the blocks: Friday 10:00 and Saturday 10:00
BlockBookTimes == {Ts(1, 10), Ts(2, 10)}
BlockOps == {"block_full_day", "block_shift"}
BlockMarkers == {"FULL_DAY_BLOCK", "MORNING_BLOCK", "AFTERNOON_BLOCK"}

\* the Appointment row block_full_day and block_shift build
BlockMarker(d, marker) ==
    [client_id |-> NoId, scheduled_at |-> Ts(d, 0), status |-> "cancelled",
     meeting_type |-> marker]

\* the rows a block query of get_available_slots selects
BlockRows(appts, d, marker) ==
    {i \in 1..Len(appts) : /\ DateOf(appts[i].scheduled_at) = d
                           /\ appts[i].client_id = NoId
                           /\ appts[i].meeting_type = marker}

\* get_available_slots returned this list
Slots(hours) == [ok |-> TRUE, slots |-> hours]
\* scalar_one_or_none raised MultipleResultsFound
MultipleRows == [ok |-> FALSE, slots |-> {}]

\* mutant: the test on the weekday is missing
GetAvailableSlotsResult_NoWeekend(appts, d) ==
    IF Cardinality(BlockRows(appts, d, "FULL_DAY_BLOCK")) > 1 THEN MultipleRows
    ELSE IF BlockRows(appts, d, "FULL_DAY_BLOCK") # {} THEN Slots({})
    ELSE IF Cardinality(BlockRows(appts, d, "MORNING_BLOCK")) > 1 THEN MultipleRows
    ELSE IF Cardinality(BlockRows(appts, d, "AFTERNOON_BLOCK")) > 1 THEN MultipleRows
    ELSE Slots({h \in (IF IsBlocked(appts, d, "MORNING_BLOCK") THEN {} ELSE MorningHours)
                      \cup (IF IsBlocked(appts, d, "AFTERNOON_BLOCK") THEN {} ELSE AfternoonHours) :
                  Ts(d, h) \notin OccupiedTimes(appts, d)})

\* get_available_slots with its three block queries in their order: each is
\* read with scalar_one_or_none, which raises when it selects several rows
GetAvailableSlotsResult(appts, d) ==
    IF Weekday(d) >= 5 THEN Slots({})
    ELSE IF Cardinality(BlockRows(appts, d, "FULL_DAY_BLOCK")) > 1 THEN MultipleRows
    ELSE IF BlockRows(appts, d, "FULL_DAY_BLOCK") # {} THEN Slots({})
    ELSE IF Cardinality(BlockRows(appts, d, "MORNING_BLOCK")) > 1 THEN MultipleRows
    ELSE IF Cardinality(BlockRows(appts, d, "AFTERNOON_BLOCK")) > 1 THEN MultipleRows
    ELSE Slots(GetAvailableSlots(appts, d))

\* mutant: blocking a day also cancels the appointments booked on it
BlockFullDayStore_CancelsBookings(appts, d) ==
    Append([i \in 1..Len(appts) |->
               IF DateOf(appts[i].scheduled_at) = d /\ appts[i].client_id # NoId
               THEN [appts[i] EXCEPT !.status = "cancelled"] ELSE appts[i]],
           BlockMarker(d, "FULL_DAY_BLOCK"))

\* the table after block_full_day(target_date, db)
BlockFullDayStore(appts, d) == Append(appts, BlockMarker(d, "FULL_DAY_BLOCK"))

\* block_shift(target_date, shift, db): another shift name raises ValueError
BlockShiftResult(shift) ==
    IF shift \notin {"morning", "afternoon"} THEN "value_error" ELSE "ok"
BlockShiftStore(appts, d, shift) ==
    IF BlockShiftResult(shift) # "ok" THEN appts
    ELSE Append(appts, BlockMarker(d, IF shift = "morning" THEN "MORNING_BLOCK"
                                      ELSE "AFTERNOON_BLOCK"))

IsBlockOf(row, d) == DateOf(row.scheduled_at) = d /\ row.client_id = NoId

\* mutant: unblock_date deletes the full-day blocks only
UnblockDateStore_FullDayOnly(appts, d) ==
    LET Keep(row) == ~(IsBlockOf(row, d) /\ row.meeting_type = "FULL_DAY_BLOCK")
    IN  SelectSeq(appts, Keep)

\* the table after unblock_date(target_date, db): every row of the date that
\* has no client is deleted
UnblockDateStore(appts, d) ==
    LET Keep(row) == ~IsBlockOf(row, d) IN SelectSeq(appts, Keep)

\* a block call as lastCall records it: what get_available_slots returned for
\* the date before the call, and whether the date had a block already
BlockCall(op, d, result) ==
    [op |-> op, id |-> NoId, client |-> NoId, at |-> Ts(d, 0), result |-> result,
     before |-> GetAvailableSlotsResult(appointments, d),
     blocked |-> \E m \in BlockMarkers : BlockRows(appointments, d, m) # {}]

\* an unblock_date call as lastCall records it, with the block call it
\* follows directly, if any
UnblockCall(d) ==
    [op |-> "unblock_date", id |-> NoId, client |-> NoId, at |-> Ts(d, 0),
     result |-> "ok",
     prior |-> IF lastCall.op \in BlockOps THEN lastCall ELSE NoCall]

BlockFullDay(d) ==
    /\ Len(appointments) < MaxAppointments
    /\ appointments' = BlockFullDayStore(appointments, d)
    /\ lastCall' = BlockCall("block_full_day", d, "ok")
    /\ UNCHANGED <<clients, now, raceVars, guardVars, chatVars, dialogVars>>

BlockShift(d, shift) ==
    /\ BlockShiftResult(shift) = "ok" => Len(appointments) < MaxAppointments
    /\ appointments' = BlockShiftStore(appointments, d, shift)
    /\ lastCall' = BlockCall("block_shift", d, BlockShiftResult(shift))
    /\ UNCHANGED <<clients, now, raceVars, guardVars, chatVars, dialogVars>>

UnblockDate(d) ==
    /\ appointments' = UnblockDateStore(appointments, d)
    /\ lastCall' = UnblockCall(d)
    /\ UNCHANGED <<clients, now, raceVars, guardVars, chatVars, dialogVars>>

NextBlocks ==
    \/ \E d \in BlockDates : BlockFullDay(d)
    \/ \E d \in BlockDates, shift \in {"morning", "afternoon", "night"} :
          BlockShift(d, shift)
    \/ \E d \in BlockDates : UnblockDate(d)
    \/ \E phone \in Phones :
          /\ CreateClient(phone)
          /\ lastCall' = Call("create_client", NoId, Len(clients) + 1, NoTime, "ok")
    \/ \E c \in ClientIds, t \in BlockBookTimes :
          /\ CreateAppointment(c, t)
          /\ lastCall' = Call("create_appointment", NoId, c, t,
                              CreateAppointmentResult(appointments, clients, now, c, t))
    \/ \E id \in 1..MaxAppointments :
          /\ CancelAppointment(id)
          /\ lastCall' = Call("cancel_appointment", id, NoId, NoTime,
                              CancelAppointmentResult(appointments, id))

SpecBlocks == InitStore /\ [][NextBlocks]_vars

(***************************************************************************)
(* Claims on the blocks                                                    *)
(***************************************************************************)
\* C17: in every reachable state in which a date carries a full-day block,
\* get_available_slots of that date returns the empty list.
C17_FullDayBlockGivesNoSlots ==
    \A d \in BlockDates :
        BlockRows(appointments, d, "FULL_DAY_BLOCK") # {}
            => GetAvailableSlotsResult(appointments, d) = Slots({})

\* the business hours of a date that no active appointment holds
FreeBusinessHours(appts, d) ==
    IF Weekday(d) \in {5, 6} THEN {}
    ELSE {h \in {9, 10, 11, 14, 15, 16, 17} : Ts(d, h) \notin OccupiedTimes(appts, d)}

\* unblock_date directly follows a block call on the same date
UnblockAfterBlock ==
    /\ lastCall.op = "unblock_date"
    /\ lastCall.prior.op \in BlockOps
    /\ lastCall.prior.result = "ok"
    /\ lastCall.prior.at = lastCall.at

Bookings(appts) == LET HasClient(row) == row.client_id # NoId IN SelectSeq(appts, HasClient)

C19_ShiftBlocks ==
    \A d \in BlockDates :
        LET morning   == BlockRows(appointments, d, "MORNING_BLOCK") # {}
            afternoon == BlockRows(appointments, d, "AFTERNOON_BLOCK") # {}
            res       == GetAvailableSlotsResult(appointments, d)
        IN  /\ res.slots \cap {12, 13} = {}
            /\ ( /\ Weekday(d) < 5
                 /\ OccupiedTimes(appointments, d) = {}
                 /\ BlockRows(appointments, d, "FULL_DAY_BLOCK") = {} )
               => res = Slots((IF morning THEN {} ELSE {9, 10, 11})
                              \cup (IF afternoon THEN {} ELSE {14, 15, 16, 17}))

\* C20: on a Saturday or Sunday get_available_slots returns the empty list
\* whatever blocks and appointments the table holds.
C20_WeekendGivesNoSlots ==
    \A d \in BlockDates :
        Weekday(d) \in {5, 6} => GetAvailableSlotsResult(appointments, d) = Slots({})

\* a Saturday holds a block and an active appointment
C20_Witness ==
    \E d \in BlockDates :
        /\ Weekday(d) \in {5, 6}
        /\ \E m \in BlockMarkers : BlockRows(appointments, d, m) # {}
        /\ OccupiedTimes(appointments, d) # {}

(***************************************************************************)
(* The appointment records with their cancellation columns: cancelled_at   *)
(* and cancellation_reason beside the status, under cancel_appointment,    *)
(* update_appointment_status and update_appointment.                       *)
(***************************************************************************)
\* rows of the table in this specification
MaxRecords == 1
\* the motives callers give
Reasons == {"no-show", "moved"}
NoReason == ""

\* the Appointment row create_appointment builds, with the two nullable
\* columns it leaves empty
NewRecord(c, t, mtype) ==
    [client_id |-> c, scheduled_at |-> t, status |-> "pending", meeting_type |-> mtype,
     cancelled_at |-> NoTime, cancellation_reason |-> NoReason]

\* the table after create_appointment(data, db)
CreateRecordStore(appts, cl, clock, c, t) ==
    IF CreateAppointmentResult(appts, cl, clock, c, t) = "ok"
    THEN Append(appts, NewRecord(c, t, "api"))
    ELSE appts

\* mutant: cancel_appointment overwrites the motive of a cancelled record
CancelRecordStore_Overwrite(appts, clock, id, reason) ==
    IF id \in 1..Len(appts)
    THEN [appts EXCEPT ![id].status = "cancelled",
                       ![id].cancelled_at = clock,
                       ![id].cancellation_reason = reason]
    ELSE appts

\* the table after cancel_appointment(appointment_id, reason, db)
CancelRecordStore(appts, clock, id, reason) ==
    IF CancelAppointmentResult(appts, id) = "ok"
    THEN [appts EXCEPT ![id].status = "cancelled",
                       ![id].cancelled_at = clock,
                       ![id].cancellation_reason = reason]
    ELSE appts

\* the table after update_appointment(appointment_id, data, db): every field
\* of data that is given is written
UpdateRecordStore(appts, clock, id, t, status, reason) ==
    IF UpdateAppointmentResult(appts, clock, id, t) = "ok"
    THEN [appts EXCEPT
            ![id].scheduled_at = IF t # NoTime THEN t ELSE @,
            ![id].status = IF status # "none" THEN status ELSE @,
            ![id].cancellation_reason = IF reason # NoReason THEN reason ELSE @]
    ELSE appts

\* a call as lastCall records it in this specification
RecordCall(op, id, c, t, r, reason) ==
    [op |-> op, id |-> id, client |-> c, at |-> t, result |-> r, reason |-> reason]

CreateRecord(c, t) ==
    /\ CreateAppointmentResult(appointments, clients, now, c, t) = "ok"
            => Len(appointments) < MaxRecords
    /\ appointments' = CreateRecordStore(appointments, clients, now, c, t)
    /\ lastCall' = RecordCall("create_appointment", NoId, c, t,
                        CreateAppointmentResult(appointments, clients, now, c, t), NoReason)
    /\ UNCHANGED <<clients, now, raceVars, guardVars, chatVars, dialogVars>>

CancelRecord(id, reason) ==
    /\ appointments' = CancelRecordStore(appointments, now, id, reason)
    /\ lastCall' = RecordCall("cancel_appointment", id, NoId, NoTime,
                        CancelAppointmentResult(appointments, id), reason)
    /\ UNCHANGED <<clients, now, raceVars, guardVars, chatVars, dialogVars>>

UpdateRecordStatus(id, status, awareDb) ==
    /\ UpdateAppointmentStatus(id, status, awareDb)
    /\ lastCall' = RecordCall("update_appointment_status", id, NoId, NoTime,
                        UpdateStatusResult(appointments, now, id, status, awareDb), NoReason)

UpdateRecord(id, t, status, reason) ==
    /\ appointments' = UpdateRecordStore(appointments, now, id, t, status, reason)
    /\ lastCall' = RecordCall("update_appointment", id, NoId, t,
                        UpdateAppointmentResult(appointments, now, id, t), reason)
    /\ UNCHANGED <<clients, now, raceVars, guardVars, chatVars, dialogVars>>

NextRecords ==
    \/ /\ CreateClient("web-aaaaaaaa")
       /\ lastCall' = RecordCall("create_client", NoId, Len(clients) + 1, NoTime, "ok", NoReason)
    \/ \E c \in 1..2, t \in BookTimes : CreateRecord(c, t)
    \/ \E id \in 1..(MaxRecords + 1), reason \in Reasons : CancelRecord(id, reason)
    \/ \E id \in 1..MaxRecords, status \in {"confirmed", "completed", "cancelled", "blocked"} :
          \E awareDb \in (IF status = "completed" THEN BOOLEAN ELSE {FALSE}) :
             UpdateRecordStatus(id, status, awareDb)
    \/ \E id \in 1..MaxRecords :
          \E u \in {[t |-> t, status |-> "none", reason |-> NoReason] : t \in BookTimes}
                   \cup {[t |-> NoTime, status |-> st, reason |-> NoReason] :
                            st \in {"cancelled", "pending", "completed"}}
                   \cup {[t |-> NoTime, status |-> "none", reason |-> r] : r \in Reasons} :
             UpdateRecord(id, u.t, u.status, u.reason)
    \/ Tick /\ lastCall' = NoCall

SpecRecords == InitStore /\ [][NextRecords]_vars

(***************************************************************************)
(* Claims on the records                                                   *)
(***************************************************************************)
\* C21: cancel_appointment on a pending or confirmed appointment sets its
\* status to cancelled and records the time and the motive of the call; on a
\* cancelled appointment or an unknown id it is rejected with an error and
\* the table, the first motive and cancelled_at included, is unchanged.
C21_CancelRecordsOnce ==
    [][ lastCall'.op = "cancel_appointment" =>
          LET id == lastCall'.id
          IN  /\ (id \in 1..Len(appointments) /\ appointments[id].status \in ActiveStatus)
                    => /\ lastCall'.result = "ok"
                       /\ appointments' =
                            [appointments EXCEPT
                                ![id].status = "cancelled",
                                ![id].cancelled_at = now,
                                ![id].cancellation_reason = lastCall'.reason]
              /\ (id \notin 1..Len(appointments) \/ appointments[id].status = "cancelled")
                    => /\ lastCall'.result \in {"not_found", "already_cancelled"}
                       /\ appointments' = appointments ]_vars

\* a second cancel_appointment with another motive was rejected on a record
\* cancelled after the clock moved
C21_Witness ==
    /\ lastCall.op = "cancel_appointment"
    /\ lastCall.result = "already_cancelled"
    /\ appointments[lastCall.id].cancellation_reason \in Reasons \ {lastCall.reason}
    /\ appointments[lastCall.id].cancelled_at > 0

\* C29: availability and booking agree on what occupies a slot.  For an
\* existing lead and a business hour t in the future, on one state of the
\* table: if get_available_slots lists t, create_appointment at t is not
\* rejected as occupied, and if create_appointment rejects t as occupied,
\* get_available_slots does not list it, whatever the status of the
\* appointments.
C29_AvailabilityAgreesWithBooking ==
    \A t \in BookTimes : \A c \in 1..Len(clients) :
        LET listed   == HourOf(t) \in GetAvailableSlotsResult(appointments, DateOf(t)).slots
            rejected == CreateAppointmentResult(appointments, clients, now, c, t) = "occupied"
        IN  t > now => ~(listed /\ rejected)

(***************************************************************************)
(* Claims on the slot check                                                *)
(***************************************************************************)
\* slot_checker of session s runs on a requested time that is not among the
\* available slots of its date
SlotUnavailable(s) ==
    /\ turn[s].pc = "slot_checker"
    /\ turn[s].st.requested_datetime # NoTime
    /\ HourOf(turn[s].st.requested_datetime)
          \notin GetAvailableSlots(appointments, DateOf(turn[s].st.requested_datetime))
    /\ turn'[s] # turn[s]

\* C31: when the requested time is not among the available slots of the
\* requested date, slot_checker sets slot_available to false, clears
\* requested_datetime, keeps the date in last_requested_date and ends the turn
\* without creating an appointment; the next turn enters datetime_collector
C31_UnavailableSlotReverts ==
    [][ \A s \in ChatSessions :
          SlotUnavailable(s)
          => /\ turn'[s].st.slot_available = "False"
             /\ turn'[s].st.requested_datetime = NoTime
             /\ turn'[s].st.last_requested_date = DateOf(turn[s].st.requested_datetime)
             /\ turn'[s].pc = "end"
             /\ appointments' = appointments
             /\ RouteDispatcher(turn'[s].st) = "datetime_collector"
      ]_vars

\* a turn is ending on the alternatives slot_checker offered
C31_Witness ==
    \E s \in ChatSessions :
        /\ turn[s].pc = "end"
        /\ LastNode(turn[s]) = "slot_checker"
        /\ LastEmitted(turn[s]) \in {"alternatives", "no_slots"}
        /\ turn[s].st.slot_available = "False"
        /\ turn[s].st.last_requested_date # NoTime

\* the alternatives slot_checker offers for the requested time of the turn
OfferedFor(appts, t) == Alternatives(GetAvailableSlots(appts, DateOf(t)), HourOf(t))

\* C32: the alternatives slot_checker offers are min(3, number of available
\* slots) slots of the requested date, all of them available, in
\* non-decreasing minute-distance from the requested time, and no available
\* slot that is left out is strictly closer to the requested time than an
\* offered one
C32_NearestAlternatives ==
    [][ \A s \in ChatSessions :
          SlotUnavailable(s)
          => LET t         == turn[s].st.requested_datetime
                 available == GetAvailableSlots(appointments, DateOf(t))
                 offered   == OfferedFor(appointments, t)
                 far(h)    == MinuteDistance(h, HourOf(t))
                 n         == Cardinality(available)
             IN  /\ Len(offered) = IF n < 3 THEN n ELSE 3
                 /\ \A k \in 1..Len(offered) : offered[k] \in available
                 /\ \A j, k \in 1..Len(offered) : j # k => offered[j] # offered[k]
                 /\ \A j, k \in 1..Len(offered) : j < k => far(offered[j]) <= far(offered[k])
                 /\ \A h \in available :
                        (\A k \in 1..Len(offered) : offered[k] # h)
                        => \A k \in 1..Len(offered) : far(offered[k]) <= far(h)
                 /\ LastEmitted(turn'[s]) = IF offered # <<>> THEN "alternatives"
                                            ELSE "no_slots"
      ]_vars

\* a turn is ending on three alternatives chosen among more free slots, the
\* nearest of which is not the first slot of the day
C32_Witness ==
    \E s \in ChatSessions :
        /\ turn[s].pc = "end"
        /\ LastNode(turn[s]) = "slot_checker"
        /\ LastEmitted(turn[s]) = "alternatives"
        /\ \E t \in {Ts(turn[s].st.last_requested_date, h) : h \in AfternoonHours} :
              /\ HourOf(t) \notin GetAvailableSlots(appointments, DateOf(t))
              /\ Cardinality(GetAvailableSlots(appointments, DateOf(t))) > 3
              /\ Len(OfferedFor(appointments, t)) = 3
              /\ OfferedFor(appointments, t)[1] \in AfternoonHours

(***************************************************************************)
(* Claims on the availability of a weekday                                 *)
(***************************************************************************)
\* the hours of the windows of date d that no block marker closes
UnblockedHours(appts, d) ==
    IF IsBlocked(appts, d, "FULL_DAY_BLOCK") THEN {}
    ELSE (IF IsBlocked(appts, d, "MORNING_BLOCK") THEN {} ELSE MorningHours)
         \cup (IF IsBlocked(appts, d, "AFTERNOON_BLOCK") THEN {} ELSE AfternoonHours)

\* an appointment of a lead that is not cancelled holds the timestamp
TakenByNonCancelled(appts, t) ==
    \E i \in 1..Len(appts) : /\ appts[i].client_id # NoId
                             /\ appts[i].scheduled_at = t
                             /\ appts[i].status # "cancelled"

\* C33: for a weekday, get_available_slots returns exactly the slots of the
\* unblocked windows whose timestamp no non-cancelled appointment of the date
\* holds: a cancelled appointment removes no slot, every other appointment
\* removes its own slot and no other
C33_SlotsAreTheFreeHours ==
    \A d \in {0, 1} :
        ( Weekday(d) < 5 /\ GetAvailableSlotsResult(appointments, d).ok )
        => GetAvailableSlotsResult(appointments, d).slots
              = {h \in UnblockedHours(appointments, d) :
                    ~TakenByNonCancelled(appointments, Ts(d, h))}

(***************************************************************************)
(* Claims on the qualification of the lead                                 *)
(***************************************************************************)
\* a lead field is held by the state
HoldsLeadField(st) == st.lead_name \/ st.lead_email \/ st.lead_interest

\* C34: the lead collector runs, and a lead field (name, email, interest) is
\* held, only in states whose permission_granted is true; while the
\* permission is pending or refused, a turn entered from the answering step
\* is routed to question_answerer and ends there
C34_LeadDataNeedsPermission ==
    /\ [](\A s \in ChatSessions :
            /\ turn[s].pc = "simple_lead_collector"
                  => turn[s].st.permission_granted = "True"
            /\ ( user_states[s] # NoState /\ HoldsLeadField(user_states[s]) )
                  => user_states[s].permission_granted = "True"
            /\ ( turn[s].pc = "end" /\ HoldsLeadField(turn[s].st) )
                  => turn[s].st.permission_granted = "True")
    /\ [][ \A s \in ChatSessions :
            ( /\ turn[s].pc = "idle" /\ turn'[s].pc # "idle"
              /\ user_states[s] # NoState
              /\ user_states[s].current_step = "question_answerer"
              /\ user_states[s].permission_granted # "True" )
            => turn'[s].pc = "question_answerer"
         ]_vars
    /\ [][ \A s \in ChatSessions :
            ( /\ turn[s].pc = "question_answerer" /\ turn'[s] # turn[s]
              /\ turn'[s].pc # "failed"
              /\ turn'[s].st.permission_granted # "True" )
            => /\ turn'[s].pc = "end"
               /\ turn'[s].st.current_step = "question_answerer"
               /\ ~HoldsLeadField(turn'[s].st)
         ]_vars

\* a turn entered from the answering step with the permission pending ends in
\* question_answerer with the permission still pending
C34_Witness ==
    \E s \in ChatSessions :
        /\ turn[s].pc = "end"
        /\ LastNode(turn[s]) = "question_answerer"
        /\ user_states[s] # NoState
        /\ user_states[s].current_step = "question_answerer"
        /\ user_states[s].permission_asked
        /\ turn[s].st.permission_granted = "None"
        /\ ~HoldsLeadField(turn[s].st)

\* the three lead fields are held by the state
HoldsLead(st) == st.lead_name /\ st.lead_email /\ st.lead_interest

\* C35: lead_collection_complete is true in a persisted state only if name,
\* email and interest are all held; while one of them is missing, a turn of
\* the lead collector ends there and the persisted step is lead_collector
C35_CompleteMeansThreeFields ==
    /\ [](\A s \in ChatSessions :
            /\ ( user_states[s] # NoState /\ user_states[s].lead_collection_complete )
                  => HoldsLead(user_states[s])
            /\ turn[s].st.lead_collection_complete => HoldsLead(turn[s].st))
    /\ [][ \A s \in ChatSessions :
            ( /\ turn[s].pc = "simple_lead_collector" /\ turn'[s] # turn[s]
              /\ ~HoldsLead(turn'[s].st) )
            => /\ turn'[s].pc = "end"
               /\ turn'[s].st.current_step = "lead_collector"
               /\ ~turn'[s].st.lead_collection_complete
         ]_vars
    /\ [][ \A s \in ChatSessions :
            ( /\ turn[s].pc = "end" /\ turn'[s].pc = "idle"
              /\ LastNode(turn[s]) = "simple_lead_collector" )
            => /\ user_states'[s].current_step = "lead_collector"
               /\ ~HoldsLead(user_states'[s])
         ]_vars

\* a turn of the lead collector has been persisted with a field still missing
C35_Witness ==
    \E s \in ChatSessions :
        /\ turn[s].pc = "idle"
        /\ user_states[s] # NoState
        /\ user_states[s].current_step = "lead_collector"
        /\ HoldsLeadField(user_states[s])
        /\ ~HoldsLead(user_states[s])
        /\ ~user_states[s].lead_collection_complete

(***************************************************************************)
(* Claims on the dispatcher                                                *)
(***************************************************************************)
\* the state a turn of session s starts from
EntryState(s) == IF user_states[s] = NoState THEN NewState ELSE user_states[s]

\* C36: a turn entered with no step or with the step greeting runs greeting
\* while the presentation is not done; once it is done, a state with mode
\* completed goes to greeting, otherwise a state whose lead collection is
\* complete goes to the schedule offer and every other state to question
\* answering
C36_EntryFromGreeting ==
    [][ \A s \in ChatSessions :
          ( /\ turn[s].pc = "idle" /\ turn'[s].pc # "idle"
            /\ EntryState(s).current_step \in {"", "greeting"} )
          => turn'[s].pc =
                IF ~EntryState(s).presentation_done THEN "greeting"
                ELSE IF EntryState(s).conversation_mode = "completed" THEN "greeting"
                ELSE IF EntryState(s).lead_collection_complete THEN "ask_to_schedule"
                ELSE "question_answerer"
      ]_vars

\* create_marketing_crm_graph: the nodes the dispatcher may enter, the keys of
\* its conditional edges
EntrySteps == {"greeting", "question_answerer", "simple_lead_collector",
               "ask_to_schedule", "datetime_collector", "confirmation"}
\* the step handlers registered in the graph
GraphNodes == EntrySteps \cup {"slot_checker", "appointment_creator"}

\* persisted states whose current_step is none of the names the graph writes
UnknownStepStates ==
    { [st EXCEPT !.current_step = "legacy_step"] : st \in PersistedStates }

\* the longest chain of the graph: simple_lead_collector, ask_to_schedule,
\* datetime_collector, slot_checker, appointment_creator, confirmation
LongestChain == Cardinality(GraphNodes) - 2

\* C37: a turn executes a bounded number of steps: each step handler runs at
\* most once in a turn, the turn is always at a registered step or over, and
\* the dispatcher returns a registered entry step for every persisted state,
\* greeting for an unknown step name
C37_TurnIsBounded ==
    /\ \A s \in ChatSessions :
          /\ \A j, k \in 1..Len(turn[s].ran) :
                j # k => turn[s].ran[j].node # turn[s].ran[k].node
          /\ \A k \in 1..Len(turn[s].ran) : turn[s].ran[k].node \in GraphNodes
          /\ Len(turn[s].ran) <= LongestChain
          /\ turn[s].pc \in GraphNodes \cup {"idle", "end", "failed"}
          /\ turn[s].pc \in GraphNodes => \A k \in 1..Len(turn[s].ran) :
                                              turn[s].ran[k].node # turn[s].pc
          /\ RouteDispatcher(EntryState(s)) \in EntrySteps
    /\ \A st \in PersistedStates : RouteDispatcher(st) \in EntrySteps
    /\ \A st \in UnknownStepStates :
          RouteDispatcher(st) = "greeting"

\* a turn has chained from the schedule offer to the confirmation
C37_Witness ==
    \E s \in ChatSessions :
        /\ turn[s].pc = "end"
        /\ Len(turn[s].ran) = 5
        /\ turn[s].ran[1].node = "ask_to_schedule"
        /\ LastNode(turn[s]) = "confirmation"

ExitsWith(r, outcome) ==
    /\ requests[r].kind = "send" /\ requests[r].pc = "critical"
    /\ requests'[r].pc = "done"
    /\ requests'[r].status = HttpStatus(outcome)
    /\ user_states' = PersistResult(user_states, requests[r], outcome)

\* C39: when the graph invocation of a turn exceeds the time limit,
\* send_message answers 504, not the 500 of a processing error, and the
\* persisted state of the session is left as it was
C39_TimeoutAnswers504 ==
    [][ \A r \in 1..Len(requests) :
          ExitsWith(r, "timeout")
          => /\ requests'[r].status = 504
             /\ user_states' = user_states
      ]_vars

(***************************************************************************)
(* Claims on the frame of the block operations                             *)
(***************************************************************************)
\* the dates whose slots are compared: the Thursday of day 0 besides the
\* dates that are blocked and unblocked
SlotDates == BlockDates \cup {0}

\* C40: block_full_day, block_shift and unblock_date on one date leave the
\* available slots of every other date as they were and change neither the
\* status nor the timestamp of any appointment of a lead
C40_BlocksTouchOneDate ==
    [][ lastCall'.op \in BlockOps \cup {"unblock_date"}
        => /\ \A d \in SlotDates :
                d # DateOf(lastCall'.at)
                => GetAvailableSlotsResult(appointments', d)
                      = GetAvailableSlotsResult(appointments, d)
           /\ Bookings(appointments') = Bookings(appointments)
      ]_vars

\* a date that holds a pending appointment of a lead has just been blocked
\* while another date offers slots
C40_Witness ==
    /\ lastCall.op \in BlockOps
    /\ lastCall.result = "ok"
    /\ \E i \in 1..Len(appointments) :
          /\ appointments[i].client_id # NoId
          /\ appointments[i].status = "pending"
          /\ DateOf(appointments[i].scheduled_at) = DateOf(lastCall.at)
    /\ \E d \in SlotDates :
          /\ d # DateOf(lastCall.at)
          /\ GetAvailableSlotsResult(appointments, d).slots # {}

====
